---- MODULE Spec2Model ----
(***************************************************************************)
(* Model of the rustling-ontology facade (src/src/lib.rs) and of the       *)
(* Korean rule catalogue (src/rules/src/ko.rs).                            *)
(*                                                                         *)
(* A text is a sequence of one-character strings.  A Parser call runs the  *)
(* chart parser over the rules, ranks the derivations, optionally filters  *)
(* them by kind and removes overlaps, then translate_values resolves each  *)
(* raw match against the ParsingContext.                                   *)
(***************************************************************************)
EXTENDS Integers, Sequences, FiniteSets, TLC

(***************************************************************************)
(* Bounds of the model.                                                    *)
(***************************************************************************)
\* longest input text, in characters
MaxLen == 2
\* number of threads that may share one Parser
MaxThreads == 2

(***************************************************************************)
(* Text.                                                                   *)
(***************************************************************************)
Digits == {"0", "1", "2", "3", "4", "5", "6", "7", "8", "9"}

\* The characters input texts are drawn from.  A Hangul syllable is written
\* by its romanisation: il U+C77C, si U+C2DC, yeol U+C5F4, dul U+B458,
\* bam U+BC24, ban U+BC18.
Alphabet == {"3", "|", "il", "si", "yeol", "dul", "bam", "ban"}

\* UTF-8 width of a character: ASCII is one byte, a Hangul syllable three
Width(c) == IF c \in Digits \cup {"|", ",", ".", "-", "/", " ", ":"} THEN 1 ELSE 3

RECURSIVE ByteOffset(_, _)
\* the byte offset of character position i (0-based) of text s
ByteOffset(s, i) == IF i = 0 THEN 0 ELSE ByteOffset(s, i - 1) + Width(s[i])

\* the characters s[lo+1..hi] of a half-open, 0-based range [lo, hi)
Slice(s, lo, hi) == SubSeq(s, lo + 1, hi)

Texts(n) == UNION {[1..k -> Alphabet] : k \in 0..n}

(***************************************************************************)
(* Regular expressions.  A regex is a sequence of alternatives (leftmost   *)
(* alternative first), an alternative a sequence of elements, an element a *)
(* character class with a repetition range; repetition is greedy.          *)
(***************************************************************************)
Lit(c) == [chars |-> {c}, min |-> 1, max |-> 1]
Cls(cs, lo, hi) == [chars |-> cs, min |-> lo, max |-> hi]

RECURSIVE MatchElems(_, _, _)
\* end position of the preferred match of the elements es at position i of
\* s, or -1
MatchElems(s, i, es) ==
    IF es = <<>> THEN i
    ELSE LET e == Head(es)
             run(n) == /\ i + n <= Len(s)
                       /\ \A k \in 1..n : s[i + k] \in e.chars
             ok == {n \in e.min..e.max :
                        run(n) /\ MatchElems(s, i + n, Tail(es)) # -1}
         IN IF ok = {} THEN -1
            ELSE MatchElems(s, i + (CHOOSE n \in ok : \A m \in ok : m <= n),
                            Tail(es))

RECURSIVE MatchAlts(_, _, _)
MatchAlts(s, i, alts) ==
    IF alts = <<>> THEN -1
    ELSE LET e == MatchElems(s, i, Head(alts))
         IN IF e # -1 THEN e ELSE MatchAlts(s, i, Tail(alts))

RECURSIVE FindIter(_, _, _)
\* the successive non-overlapping leftmost matches of a regex from position
\* pos on, as a set of ranges
FindIter(s, re, pos) ==
    IF pos > Len(s) THEN {}
    ELSE LET e == MatchAlts(s, pos, re)
         IN IF e = -1 THEN FindIter(s, re, pos + 1)
            ELSE IF e = pos THEN FindIter(s, re, pos + 1)
            ELSE {[lo |-> pos, hi |-> e]} \cup FindIter(s, re, e)

Hits(s, re) == FindIter(s, re, 0)

(***************************************************************************)
(* Values (the Dimension sum type) and the helpers that build them.        *)
(***************************************************************************)
\* a production that returned Err: the derivation is dropped
Err == [kind |-> "Err"]
\* a production that ran into panic!: the parse call unwinds
Panic == [kind |-> "Panic"]

\* the i64 of an Integer is high * 10^9 + value, every TLC integer having
\* 32 bits
IntegerValue(v) ==
    [kind |-> "Number", num |-> "Integer", value |-> v, high |-> 0,
     precision |-> "Exact", prefixed |-> FALSE, suffixed |-> FALSE]

\* a Float holds its value in tenths (0.5 is 5), TLC having no reals
FloatValue(tenths) ==
    [kind |-> "Number", num |-> "Float", value |-> tenths,
     precision |-> "Exact", prefixed |-> FALSE, suffixed |-> FALSE]

OrdinalValue(v) == [kind |-> "Ordinal", value |-> v]
RelativeMinuteValue(m) == [kind |-> "RelativeMinute", minutes |-> m]
UnitOfDurationValue(g) == [kind |-> "UnitOfDuration", grain |-> g]
CycleValue(g) == [kind |-> "Cycle", grain |-> g]
DurationValue(g, n) ==
    [kind |-> "Duration", grain |-> g, n |-> n, precision |-> "Exact"]

\* Form of a Time: tag and, for TimeOfDay, the full hour (-1 for None)
Form(tag, arg) == [tag |-> tag, arg |-> arg]

TimeValue(c, f, g) ==
    [kind |-> "Time", constraint |-> c, form |-> f, grain |-> g,
     latent |-> FALSE, precision |-> "Exact", direction |-> "None"]

ok(v) == v.kind \notin {"Err", "Panic"}

latent(t) == IF ok(t) THEN [t EXCEPT !.latent = TRUE] ELSE t
not_latent(t) == IF ok(t) THEN [t EXCEPT !.latent = FALSE] ELSE t
form(t, f) == IF ok(t) THEN [t EXCEPT !.form = f] ELSE t
\* TimeValue::precision(p) and DurationValue::precision(p)
precision(t, p) == IF ok(t) THEN [t EXCEPT !.precision = p] ELSE t

\* helpers::hour(h, is_12_clock)
hour(h, is_12_clock) ==
    IF h \in 0..24
    THEN TimeValue([op |-> "Hour", h |-> h, m |-> 0, clock12 |-> is_12_clock],
                   Form("TimeOfDay", h), "Hour")
    ELSE Err

\* helpers::hour_minute(h, m, is_12_clock)
hour_minute(h, m, is_12_clock) ==
    IF h \in 0..23 /\ m \in 0..59
    THEN TimeValue([op |-> "Hour", h |-> h, m |-> m, clock12 |-> is_12_clock],
                   Form("TimeOfDay", -1), "Minute")
    ELSE Err

\* helpers::hour_relative_minute(h, m, is_12_clock): m minutes after the
\* hour, or -m minutes before it
hour_relative_minute(h, m, is_12_clock) ==
    IF ~(h \in 0..23 /\ m \in -59..59) THEN Err
    ELSE IF m >= 0 THEN hour_minute(h, m, is_12_clock)
    ELSE hour_minute((h + 23) % 24, 60 + m, is_12_clock)

\* helpers::hour_minute_second(h, m, s, is_12_clock)
hour_minute_second(h, m, sec, is_12_clock) ==
    IF h \in 0..23 /\ m \in 0..59 /\ sec \in 0..59
    THEN TimeValue([op |-> "HourMinuteSecond", h |-> h, m |-> m, s |-> sec,
                    clock12 |-> is_12_clock],
                   Form("TimeOfDay", -1), "Second")
    ELSE Err

\* helpers::second(s)
second(sec) ==
    IF sec \in 0..59
    THEN TimeValue([op |-> "Second", s |-> sec], Form("Empty", -1), "Second")
    ELSE Err

\* helpers::year(y): a year of two digits is taken in the century nearest
\* the reference, any other year literally
year(y) ==
    TimeValue([op |-> "Year", year |-> y, literal |-> y >= 100],
              Form("Year", -1), "Year")

\* helpers::cycle_n_not_immediate(grain, n): the n cycles after the
\* current one, before it when n is negative
cycle_n_not_immediate(grain, n) ==
    TimeValue([op |-> "CycleN", grain |-> grain, n |-> n],
              Form("Empty", -1), grain)

\* helpers::day_of_month(d)
day_of_month(d) ==
    IF d \in 1..31
    THEN TimeValue([op |-> "DayOfMonth", d |-> d], Form("Empty", -1), "Day")
    ELSE Err

\* helpers::month(m)
month(m) ==
    IF m \in 1..12
    THEN TimeValue([op |-> "Month", m |-> m], Form("Month", m), "Month")
    ELSE Err

\* helpers::day_of_week(w), Weekday::Mon = 0 .. Weekday::Sun = 6
day_of_week(w) ==
    TimeValue([op |-> "DayOfWeek", w |-> w], Form("DayOfWeek", w), "Day")

\* TimeValue::span_to(other, inclusive)
span_to(a, b, inclusive) ==
    IF ok(a) /\ ok(b)
    THEN TimeValue([op |-> "Span", from |-> a.constraint,
                    to |-> b.constraint, inclusive |-> inclusive],
                   Form("Empty", -1),
                   IF a.grain = "Minute" \/ b.grain = "Minute"
                   THEN "Minute" ELSE a.grain)
    ELSE Err

\* TimeValue::intersect(other)
intersect(a, b) ==
    IF ok(a) /\ ok(b)
    THEN TimeValue([op |-> "Intersect", l |-> a.constraint,
                    r |-> b.constraint],
                   Form("Empty", -1),
                   IF "Day" \in {a.grain, b.grain} THEN "Day" ELSE a.grain)
    ELSE Err

\* helpers::month_day(m, d): day d of month m of every year
month_day(m, d) == intersect(month(m), day_of_month(d))

\* TimeValue::the_nth(n)
the_nth(t, n) ==
    IF ok(t)
    THEN TimeValue([op |-> "Nth", base |-> t.constraint, n |-> n],
                   Form("Empty", -1), t.grain)
    ELSE t

\* Dimension::kind
Kind(v) == v.kind

\* Value::latent of a Dimension: only a Time can be latent
IsLatent(v) == v.kind = "Time" /\ v.latent

(***************************************************************************)
(* Matchers of a rule pattern: a literal regex, or a typed check of a      *)
(* child value.                                                            *)
(***************************************************************************)
Reg(re) == [m |-> "reg", re |-> re]
\* integer_check!(lo, hi)
IntCheck(lo, hi) == [m |-> "int", lo |-> lo, hi |-> hi]
\* integer_check!(lo, hi, |integer| integer.value % 10 == 0)
IntCheckTens(lo, hi) == [m |-> "int10", lo |-> lo, hi |-> hi]
\* integer_check!(lo)
IntMin(lo) == [m |-> "intmin", lo |-> lo]
\* time_check!(form!(Form::TimeOfDay(Some(_))))
TimeOfDaySomeCheck == [m |-> "tod_some"]
\* unit_of_duration_check!()
UodCheck == [m |-> "uod"]
\* relative_minute_check!()
RelMinCheck == [m |-> "relmin"]
\* time_check!(form!(Form::TimeOfDay(_)))
TimeOfDayCheck == [m |-> "tod"]
\* time_check!()
TimeCheck == [m |-> "time"]
\* number_check!(|number| !number.prefixed())
NumberNotPrefixed == [m |-> "num", unless |-> "prefixed"]
\* number_check!(|number| !number.suffixed())
NumberNotSuffixed == [m |-> "num", unless |-> "suffixed"]
\* integer_check!()
IntAny == [m |-> "intany"]
\* ordinal_check!()
OrdinalCheck == [m |-> "ordinal"]
\* time_check!(|time: &TimeValue| !time.latent)
TimeNotLatentCheck == [m |-> "time_not_latent"]
\* duration_check!()
DurationCheck == [m |-> "duration"]
\* cycle_check!()
CycleCheck == [m |-> "cycle"]

IsInteger(v) == v.kind = "Number" /\ v.num = "Integer"

\* whether matcher mt accepts the child value v
Accepts(mt, v) ==
    CASE mt.m = "int" -> /\ IsInteger(v) /\ v.high = 0
                         /\ mt.lo <= v.value /\ v.value <= mt.hi
      [] mt.m = "int10" -> /\ IsInteger(v) /\ v.high = 0
                           /\ mt.lo <= v.value /\ v.value <= mt.hi
                           /\ v.value % 10 = 0
      [] mt.m = "intmin" -> IsInteger(v) /\ (v.high > 0 \/ mt.lo <= v.value)
      [] mt.m = "tod_some" -> /\ v.kind = "Time"
                              /\ v.form.tag = "TimeOfDay" /\ v.form.arg # -1
      [] mt.m = "uod" -> v.kind = "UnitOfDuration"
      [] mt.m = "relmin" -> v.kind = "RelativeMinute"
      [] mt.m = "tod" -> v.kind = "Time" /\ v.form.tag = "TimeOfDay"
      [] mt.m = "time" -> v.kind = "Time"
      [] mt.m = "cycle" -> v.kind = "Cycle"
      [] mt.m = "duration" -> v.kind = "Duration"
      [] mt.m = "time_not_latent" -> v.kind = "Time" /\ ~v.latent
      [] mt.m = "intany" -> IsInteger(v)
      [] mt.m = "ordinal" -> v.kind = "Ordinal"
      [] mt.m = "num" -> /\ v.kind = "Number"
                         /\ IF mt.unless = "prefixed" THEN ~v.prefixed
                            ELSE ~v.suffixed
      [] OTHER -> FALSE

(***************************************************************************)
(* The rules of ko.rs whose literals can occur in a text over Alphabet.    *)
(* Romanised syllables: i U+C774, sam U+C0BC, sa U+C0AC, o U+C624,         *)
(* yuk U+C721, chil U+CE60, pal U+D314, gu U+AD6C, sip U+C2ED,             *)
(* baek U+BC31, cheon U+CC9C, man U+B9CC, eok U+C5B5, jo U+C870,           *)
(* gan U+AC04, nal U+B0A0.                                                 *)
(***************************************************************************)
\* longest digit string of "integer (numeric)": (\d{1,18})
MaxDigits == 18

\* the character class [il|i|sam|sa|o|yuk|chil|pal|gu] of the day rule: the
\* bar written between the syllables is a member of the class
DayClass == {"il", "|", "i", "sam", "sa", "o", "yuk", "chil", "pal", "gu"}

\* the character class of "integer - TYPE 1"
Type1Class == DayClass \cup {"sip", "baek", "cheon", "man", "eok", "jo"}

\* "integer (numeric)" with a regex of nine digits at most
rule_integer_numeric_9 ==
    [name |-> "integer (numeric)",
     pat |-> <<Reg(<< <<Cls(Digits, 1, 9)>> >>)>>]

rule_integer_numeric ==
    [name |-> "integer (numeric)",
     pat |-> <<Reg(<< <<Cls(Digits, 1, MaxDigits)>> >>)>>]

\* the repetitions of + followed: the longest numeral tried has 35
\* characters
MaxRepeat == 35

rule_integer_type1 ==
    [name |-> "integer - TYPE 1",
     pat |-> <<Reg(<< <<Cls(Type1Class, 1, MaxRepeat)>> >>)>>]

rule_integer_type2 ==
    [name |-> "integer (1..10) - TYPE 2",
     pat |-> <<Reg(<< <<Lit("ha"), Lit("na")>>, <<Lit("dul")>>,
                      <<Lit("set")>>, <<Lit("net")>>,
                      <<Lit("da"), Lit("seot")>>, <<Lit("yeo"), Lit("seot")>>,
                      <<Lit("il"), Lit("gop")>>, <<Lit("yeo"), Lit("deol")>>,
                      <<Lit("a"), Lit("hop")>> >>)>>]

rule_integer_tens ==
    [name |-> "integer (20..90) - TYPE 2 and ordinals",
     pat |-> <<Reg(<< <<Lit("yeol")>>, <<Lit("seu"), Lit("mul")>>,
                      <<Lit("seo"), Lit("reun")>>, <<Lit("ma"), Lit("heun")>>,
                      <<Lit("swin")>>, <<Lit("ye"), Lit("sun")>>,
                      <<Lit("il"), Lit("heun")>>, <<Lit("yeo"), Lit("deun")>>,
                      <<Lit("a"), Lit("heun")>> >>)>>]

rule_integer_11_99 ==
    [name |-> "integer (11..99) - TYPE 2",
     pat |-> <<IntCheckTens(10, 90), IntCheck(1, 9)>>]

rule_half ==
    [name |-> "half - ban", pat |-> <<Reg(<< <<Lit("ban")>> >>)>>]

rule_half_relative_minutes ==
    [name |-> "half (relative minutes)", pat |-> <<Reg(<< <<Lit("ban")>> >>)>>]

rule_night ==
    [name |-> "night", pat |-> <<Reg(<< <<Lit("bam")>> >>)>>]

rule_day_korean_1_9 ==
    [name |-> "day with korean number - il-il..gu-il",
     pat |-> <<Reg(<< <<Cls(DayClass, 1, 1), Lit("il")>> >>)>>]

rule_day ==
    [name |-> "day", pat |-> <<IntCheck(1, 31), Reg(<< <<Lit("il")>> >>)>>]

rule_time_of_day_latent ==
    [name |-> "time-of-day (latent)", pat |-> <<IntCheck(0, 23)>>]

rule_time_of_day ==
    [name |-> "time-of-day",
     pat |-> <<IntCheck(0, 24), Reg(<< <<Lit("si")>> >>)>>]

rule_hour_relative_minutes ==
    [name |-> "<hour-of-day> <integer> (as relative minutes)",
     pat |-> <<TimeOfDaySomeCheck, RelMinCheck>>]

rule_hour_integer ==
    [name |-> "<hour-of-day> <integer>",
     pat |-> <<TimeOfDaySomeCheck, IntCheck(0, 59)>>]

rule_hour_uod ==
    [name |-> "hour (unit-of-duration)",
     pat |-> <<Reg(<< <<Lit("si"), Lit("gan")>>, <<Lit("si")>> >>)>>]

rule_day_uod ==
    [name |-> "day (unit-of-duration)",
     pat |-> <<Reg(<< <<Lit("nal")>>, <<Lit("il"), Lit("gan")>>,
                      <<Lit("il")>> >>)>>]

rule_hour_cycle ==
    [name |-> "hour (cycle)",
     pat |-> <<Reg(<< <<Lit("si"), Lit("gan")>>, <<Lit("si")>> >>)>>]

rule_day_cycle ==
    [name |-> "day (cycle)",
     pat |-> <<Reg(<< <<Lit("nal")>>, <<Lit("il"), Lit("gan")>>,
                      <<Lit("il")>> >>)>>]

rule_integer_uod ==
    [name |-> "<integer> <unit-of-duration>",
     pat |-> <<IntMin(0), UodCheck>>]

\* the rule set the Parser is built with, in lexicographic order of the
\* rule names
rule_set ==
    << rule_hour_integer, rule_hour_relative_minutes, rule_integer_uod,
       rule_day, rule_day_cycle, rule_day_uod, rule_day_korean_1_9,
       rule_half_relative_minutes, rule_half, rule_hour_cycle, rule_hour_uod,
       rule_integer_type2, rule_integer_11_99, rule_integer_tens,
       rule_integer_numeric, rule_integer_type1, rule_night,
       rule_time_of_day, rule_time_of_day_latent >>

(***************************************************************************)
(* Productions.                                                            *)
(***************************************************************************)
\* 10^9: an i64 is held as <<hi, lo>>, standing for hi * 10^9 + lo, every
\* TLC integer having 32 bits
Limb == 10^9

DigitValue(c) ==
    CASE c = "0" -> 0 [] c = "1" -> 1 [] c = "2" -> 2 [] c = "3" -> 3
      [] c = "4" -> 4 [] c = "5" -> 5 [] c = "6" -> 6 [] c = "7" -> 7
      [] c = "8" -> 8 [] c = "9" -> 9

RECURSIVE parse_i64(_)
\* str::parse::<i64> of a string of at most MaxDigits digits: the digits
\* are accumulated from the left, most significant first
parse_i64(text) ==
    IF text = <<>> THEN <<0, 0>>
    ELSE LET p == parse_i64(SubSeq(text, 1, Len(text) - 1))
             d == DigitValue(text[Len(text)])
         IN <<p[1] * 10 + p[2] \div (Limb \div 10),
              (p[2] % (Limb \div 10)) * 10 + d>>

\* production of "integer (numeric)"
prod_integer_numeric(text_match) ==
    LET value == parse_i64(text_match)
    IN [IntegerValue(value[2]) EXCEPT !.high = value[1]]

\* map_number of "integer - TYPE 1"
map_number(c) ==
    CASE c = "il" -> 1 [] c = "i" -> 2 [] c = "sam" -> 3 [] c = "sa" -> 4
      [] c = "o" -> 5 [] c = "yuk" -> 6 [] c = "chil" -> 7 [] c = "pal" -> 8
      [] c = "gu" -> 9 [] c = "cheon" -> 1 [] c = "baek" -> 1
      [] c = "sip" -> 1 [] OTHER -> 0

\* length of the optional greedy group (.*c)? matched at the start of s: up
\* to the last c, 0 when the group takes no part
GroupLen(s, c) ==
    LET at == {k \in 1..Len(s) : s[k] = c}
    IN IF at = {} THEN 0 ELSE CHOOSE k \in at : \A j \in at : j <= k

\* g.chars().nth(0).map(map_number).unwrap_or(0) of a group of length n
\* starting after position from of s
FirstDigit(s, from, n) == IF n = 0 THEN 0 ELSE map_number(s[from + 1])

\* get_number of "integer - TYPE 1": (.*cheon)?(.*baek)?(.*sip)?(.*)?
get_number(s) ==
    LET n1 == GroupLen(s, "cheon")
        s2 == SubSeq(s, n1 + 1, Len(s))
        n2 == GroupLen(s2, "baek")
        s3 == SubSeq(s2, n2 + 1, Len(s2))
        n3 == GroupLen(s3, "sip")
        s4 == SubSeq(s3, n3 + 1, Len(s3))
    IN 1000 * FirstDigit(s, 0, n1) + 100 * FirstDigit(s2, 0, n2)
       + 10 * FirstDigit(s3, 0, n3) + FirstDigit(s4, 0, Len(s4))

\* "integer - TYPE 1": (.*jo)?(.*eok)?(.*man)?(.*)?
prod_integer_type1(text_match) ==
    LET s == text_match
        n1 == GroupLen(s, "jo")
        s2 == SubSeq(s, n1 + 1, Len(s))
        n2 == GroupLen(s2, "eok")
        s3 == SubSeq(s2, n2 + 1, Len(s2))
        n3 == GroupLen(s3, "man")
        s4 == SubSeq(s3, n3 + 1, Len(s3))
        g(t, n) == IF n = 0 THEN 0 ELSE get_number(SubSeq(t, 1, n))
        g3 == IF n3 = 0 THEN 0
              ELSE IF SubSeq(s3, 1, n3) = <<"man">> THEN 1
              ELSE get_number(SubSeq(s3, 1, n3))
        \* 10^12 * jo + 10^8 * eok + 10^4 * man + rest, in limbs of 10^9
    IN [IntegerValue((g(s2, n2) % 10) * 100000000 + 10000 * g3
                     + get_number(s4))
          EXCEPT !.high = 1000 * g(s, n1) + g(s2, n2) \div 10]

prod_integer_type2(text_match) ==
    CASE text_match = <<"ha", "na">> -> IntegerValue(1)
      [] text_match = <<"dul">> -> IntegerValue(2)
      [] text_match = <<"set">> -> IntegerValue(3)
      [] text_match = <<"net">> -> IntegerValue(4)
      [] text_match = <<"da", "seot">> -> IntegerValue(5)
      [] text_match = <<"yeo", "seot">> -> IntegerValue(6)
      [] text_match = <<"il", "gop">> -> IntegerValue(7)
      [] text_match = <<"yeo", "deol">> -> IntegerValue(8)
      [] text_match = <<"a", "hop">> -> IntegerValue(9)
      [] OTHER -> Panic

prod_integer_tens(text_match) ==
    CASE text_match = <<"yeol">> -> IntegerValue(10)
      [] text_match = <<"seu", "mul">> -> IntegerValue(20)
      [] text_match = <<"seo", "reun">> -> IntegerValue(30)
      [] text_match = <<"ma", "heun">> -> IntegerValue(40)
      [] text_match = <<"swin">> -> IntegerValue(50)
      [] text_match = <<"ye", "sun">> -> IntegerValue(60)
      [] text_match = <<"il", "heun">> -> IntegerValue(70)
      [] text_match = <<"yeo", "deun">> -> IntegerValue(80)
      [] text_match = <<"a", "heun">> -> IntegerValue(90)
      [] OTHER -> Panic

prod_integer_11_99(a, b) == IntegerValue(a.value + b.value)

prod_half == FloatValue(5)

prod_half_relative_minutes == RelativeMinuteValue(30)

prod_night ==
    form(latent(span_to(hour(19, FALSE), hour(0, FALSE), FALSE)),
         Form("PartOfDay", -1))

\* the match on text_match.group(1), the first character of the match
prod_day_korean_1_9(text_match) ==
    LET g == text_match[1]
    IN CASE g = "il" -> day_of_month(1) [] g = "i" -> day_of_month(2)
         [] g = "sam" -> day_of_month(3) [] g = "sa" -> day_of_month(4)
         [] g = "o" -> day_of_month(5) [] g = "yuk" -> day_of_month(6)
         [] g = "chil" -> day_of_month(7) [] g = "pal" -> day_of_month(8)
         [] g = "gu" -> day_of_month(9)
         [] OTHER -> Panic

prod_day(integer) == day_of_month(integer.value)

\* the integer comes back as it is
prod_time_of_day_latent_same(integer) == integer

prod_time_of_day_latent(integer) == latent(hour(integer.value, TRUE))

prod_time_of_day(integer) == hour(integer.value, TRUE)

prod_hour_relative_minutes(tod, relative_minutes) ==
    hour_relative_minute(tod.form.arg, relative_minutes.minutes, TRUE)

prod_hour_integer(tod, integer) ==
    hour_minute(tod.form.arg, integer.value, TRUE)

prod_integer_uod(integer, uod) == DurationValue(uod.grain, integer.value)

(***************************************************************************)
(* Rules applied on their own, one application at a time.  Romanised       *)
(* syllables: o-jeon U+C624 U+C804, a-chim U+C544 U+CE68,                  *)
(* sae-byeok U+C0C8 U+BCBD, o-hu U+C624 U+D6C4, jeo-nyeok U+C800 U+B141,   *)
(* bu-teo U+BD80 U+D130, kka-ji U+AE4C U+C9C0.                             *)
(***************************************************************************)
rule_tod_am ==
    [name |-> "<time-of-day> am",
     pat |-> <<Reg(<< <<Lit("o"), Lit("jeon")>>, <<Lit("a"), Lit("chim")>>,
                      <<Lit("sae"), Lit("byeok")>> >>),
               TimeOfDayCheck>>]

rule_tod_pm ==
    [name |-> "<time-of-day> pm",
     pat |-> <<Reg(<< <<Lit("o"), Lit("hu")>>, <<Lit("jeo"), Lit("nyeok")>>,
                      <<Lit("bam")>> >>),
               TimeOfDayCheck>>]

rule_from_to ==
    [name |-> "from <time> to <time>",
     pat |-> <<TimeCheck, Reg(<< <<Lit("bu"), Lit("teo")>> >>),
               TimeCheck, Reg(<< <<Lit("kka"), Lit("ji")>> >>)>>]

\* decimal digit i of 18 of the i64 held by an IntegerValue that is not
\* negative, the most significant first
DecimalDigit(v, i) ==
    IF i <= 9 THEN (v.high \div 10^(9 - i)) % 10
    ELSE (v.value \div 10^(18 - i)) % 10

RECURSIVE Low32(_, _)
\* the low 32 bits of the number made of the first i decimal digits, as
\* two halves of 16 bits
Low32(v, i) ==
    IF i = 0 THEN <<0, 0>>
    ELSE LET p == Low32(v, i - 1)
             lo == p[2] * 10 + DecimalDigit(v, i)
         IN <<(p[1] * 10 + lo \div 65536) % 65536, lo % 65536>>

\* `value as i32` of a value that is not negative: the low 32 bits, read
\* as a two's complement number
as_i32(v) ==
    LET w == Low32(v, 18)
    IN IF w[1] >= 32768 THEN (w[1] - 65536) * 65536 + w[2]
       ELSE w[1] * 65536 + w[2]

\* nyeon U+B144
rule_year ==
    [name |-> "year",
     pat |-> <<IntMin(1), Reg(<< <<Lit("nyeon")>> >>)>>]

prod_year(integer) == year(as_i32(integer))

\* -|ma-i-neo-seu\s?|ma-i-na-seu\s? (U+B9C8 U+C774 U+B108 U+C2A4, U+B098)
rule_numbers_prefix ==
    [name |-> "numbers prefix with -, ma-i-neo-seu, or ma-i-na-seu",
     pat |-> <<Reg(<< <<Lit("-")>>,
                      <<Lit("ma"), Lit("i"), Lit("neo"), Lit("seu"),
                        Cls({" "}, 0, 1)>>,
                      <<Lit("ma"), Lit("i"), Lit("na"), Lit("seu"),
                        Cls({" "}, 0, 1)>> >>),
               NumberNotPrefixed>>]

\* the first "fraction": bun U+BD84, ui U+C758, e U+C5D0
rule_fraction ==
    [name |-> "fraction",
     pat |-> <<NumberNotPrefixed,
               Reg(<< <<Lit("bun"), Cls({"ui", "e"}, 1, 1)>> >>),
               NumberNotSuffixed>>]

\* the second "fraction"
rule_fraction_slash ==
    [name |-> "fraction",
     pat |-> <<NumberNotPrefixed, Reg(<< <<Lit("/")>> >>), NumberNotSuffixed>>]

\* the production of both arms of the match on NumberValue
prod_numbers_prefix(a) ==
    IF a.num = "Integer"
    THEN [a EXCEPT !.value = @ * (0 - 1), !.high = @ * (0 - 1),
                   !.prefixed = TRUE]
    ELSE [a EXCEPT !.value = @ * (0 - 1), !.prefixed = TRUE]

\* NumberValue::value of a number of one limb, in tenths
NumberTenths(v) == IF v.num = "Integer" THEN v.value * 10 ELSE v.value

Abs(x) == IF x < 0 THEN 0 - x ELSE x

\* whether x / y, both in tenths, is a number of tenths
ExactTenths(x, y) == y # 0 /\ (Abs(x) * 10) % Abs(y) = 0

\* x / y in tenths
Quotient(x, y) ==
    IF (x < 0) = (y < 0) THEN (Abs(x) * 10) \div Abs(y)
    ELSE 0 - ((Abs(x) * 10) \div Abs(y))

\* the productions of the two "fraction" rules: b / a after bun-ui, a / b
\* after the slash
prod_fraction(a, sep, b) ==
    IF sep = <<"/">>
    THEN FloatValue(Quotient(NumberTenths(a), NumberTenths(b)))
    ELSE FloatValue(Quotient(NumberTenths(b), NumberTenths(a)))

\* cheot U+CCAB, beon U+BC88, jjae U+C9F8: cheot(?:beon-jjae|beon|jjae|
\* jjae-beon)?, the alternatives of the group in their order, then none
rule_first_ordinal ==
    [name |-> "first ordinal",
     pat |-> <<Reg(<< <<Lit("cheot"), Lit("beon"), Lit("jjae")>>,
                      <<Lit("cheot"), Lit("beon")>>,
                      <<Lit("cheot"), Lit("jjae")>>,
                      <<Lit("cheot"), Lit("jjae"), Lit("beon")>>,
                      <<Lit("cheot")>> >>)>>]

\* beon-jjae|jjae|jjae-beon
rule_ordinals ==
    [name |-> "ordinals (cheot-beon-jjae)",
     pat |-> <<IntAny,
               Reg(<< <<Lit("beon"), Lit("jjae")>>, <<Lit("jjae")>>,
                      <<Lit("jjae"), Lit("beon")>> >>)>>]

rule_time_nth_time ==
    [name |-> "<time> nth <time>",
     pat |-> <<TimeCheck, OrdinalCheck, TimeCheck>>]

\* production of "<time> nth <time>" and of "nth <time>"
prod_time_nth_time(a, ordinal, b) == the_nth(intersect(a, b), ordinal.value - 1)

\* "number (as relative minutes)" taking any integer from 1 up
rule_number_relative_minutes_unbounded ==
    [name |-> "number (as relative minutes)",
     pat |-> <<IntMin(1), Reg(<< <<Lit("bun")>> >>)>>]

\* jeon U+C804
rule_hour_relative_minutes_before ==
    [name |-> "<integer> (hour-of-day) relative minutes jeon",
     pat |-> <<TimeOfDaySomeCheck, RelMinCheck, Reg(<< <<Lit("jeon")>> >>)>>]

\* the minutes handed over as they are
prod_hour_relative_minutes_before_unsigned(tod, relative_minutes) ==
    hour_relative_minute(tod.form.arg, relative_minutes.minutes, TRUE)

prod_hour_relative_minutes_before(tod, relative_minutes) ==
    hour_relative_minute(tod.form.arg, (0 - 1) * relative_minutes.minutes,
                         TRUE)

rule_intersect ==
    [name |-> "intersect",
     pat |-> <<TimeNotLatentCheck, TimeNotLatentCheck>>]

\* e U+C5D0, ttae U+B54C
rule_date_e ==
    [name |-> "<date>e",
     pat |-> <<TimeCheck, Reg(<< <<Lit("e")>>, <<Lit("ttae")>> >>)>>]

rule_time_of_day_e ==
    [name |-> "<time-of-day>e",
     pat |-> <<TimeOfDayCheck, Reg(<< <<Lit("e")>> >>)>>]

prod_intersect(a, b) == intersect(a, b)

prod_date_e(time) == time

prod_time_of_day_e(time) == not_latent(time)

\* gyeong U+ACBD
rule_time_approximately ==
    [name |-> "<time> approximately",
     pat |-> <<TimeCheck, Reg(<< <<Lit("gyeong")>> >>)>>]

\* jeong-do U+C815 U+B3C4, jjeum U+CBE4
rule_time_of_day_approximately ==
    [name |-> "<time-of-day> approximately",
     pat |-> <<TimeOfDayCheck,
               Reg(<< <<Lit("jeong"), Lit("do")>>, <<Lit("jjeum")>> >>)>>]

\* dae-chung U+B300 U+CDA9, yak U+C57D
rule_about_time_of_day ==
    [name |-> "about <time-of-day>",
     pat |-> <<Reg(<< <<Lit("dae"), Lit("chung")>>, <<Lit("yak")>> >>),
               TimeOfDayCheck>>]

\* jeong-gak U+C815 U+AC01
rule_exactly_time_of_day ==
    [name |-> "exactly <time-of-day>",
     pat |-> <<TimeOfDayCheck, Reg(<< <<Lit("jeong"), Lit("gak")>> >>)>>]

rule_about_duration ==
    [name |-> "about <duration>",
     pat |-> <<Reg(<< <<Lit("dae"), Lit("chung")>>, <<Lit("yak")>> >>),
               DurationCheck>>]

\* jeong-hwak-hi U+C815 U+D655 U+D788, ttak U+B531
rule_exactly_duration ==
    [name |-> "exactly <duration>",
     pat |-> <<Reg(<< <<Lit("jeong"), Lit("hwak"), Lit("hi")>>,
                      <<Lit("ttak")>> >>),
               DurationCheck>>]

prod_time_approximately(time) == precision(time, "Approximate")

prod_time_of_day_approximately(time) ==
    precision(not_latent(time), "Approximate")

prod_about_time_of_day(time) == precision(not_latent(time), "Approximate")

prod_exactly_time_of_day(time) == precision(not_latent(time), "Approximate")

prod_about_duration(duration) == precision(duration, "Approximate")

prod_exactly_duration(duration) == precision(duration, "Exact")

\* ([i|sam]?sip[il|i|sam|sa|o|yuk|chil|pal|gu]?)il: the bar written in
\* the classes is a member of them; sip U+C2ED
rule_day_korean_10_31 ==
    [name |-> "day with korean number - sip-il..sam-sip-il-il",
     pat |-> <<Reg(<< <<Cls({"i", "|", "sam"}, 0, 1), Lit("sip"),
                        Cls(DayClass, 0, 1), Lit("il")>> >>)>>]

\* map_number of the day rule
day_map_number(c) ==
    CASE c = "il" -> 1 [] c = "i" -> 2 [] c = "sam" -> 3 [] c = "sa" -> 4
      [] c = "o" -> 5 [] c = "yuk" -> 6 [] c = "chil" -> 7 [] c = "pal" -> 8
      [] c = "gu" -> 9 [] c = "sip" -> 1 [] OTHER -> 0

\* get_number of the day rule: (.*sip)?(.*)?, ten times the first character
\* of the first group plus the first character of the second
day_get_number(s) ==
    LET n1 == GroupLen(s, "sip")
        rest == SubSeq(s, n1 + 1, Len(s))
    IN 10 * (IF n1 = 0 THEN 0 ELSE day_map_number(s[1]))
       + (IF rest = <<>> THEN 0 ELSE day_map_number(rest[1]))

\* text_match.group(1): the match without its last il
DayGroup(text_match) == SubSeq(text_match, 1, Len(text_match) - 1)

prod_day_korean_10_31(text_match) ==
    day_of_month(day_get_number(DayGroup(text_match)))

\* si-gan-ban U+C2DC U+AC04 U+BC18
rule_integer_half_hours ==
    [name |-> "<integer> and an half hours",
     pat |-> <<IntMin(0), Reg(<< <<Lit("si"), Lit("gan"), Lit("ban")>> >>)>>]

\* ji-nan U+C9C0 U+B09C
rule_last_n_cycle ==
    [name |-> "last n <cycle>",
     pat |-> <<Reg(<< <<Lit("ji"), Lit("nan")>> >>), IntCheck(1, 9999),
               CycleCheck>>]

\* the sum of two numbers that are not negative, each three limbs of 10^9
Add3(x, y) ==
    LET lo == x[3] + y[3]
        hi == x[2] + y[2] + lo \div Limb
    IN <<x[1] + y[1] + hi \div Limb, hi % Limb, lo % Limb>>

\* 60 times x: 60 = 4 * (2 * (2 * (2 + 1) + 1) + 1)
Times60(x) ==
    LET x3 == Add3(Add3(x, x), x)
        x7 == Add3(Add3(x3, x3), x)
        x15 == Add3(Add3(x7, x7), x)
        x30 == Add3(x15, x15)
    IN Add3(x30, x30)

\* whether the number is at most i64::MAX, 9223372036854775807
FitsI64(x) ==
    \/ x[1] < 9
    \/ x[1] = 9 /\ x[2] < 223372036
    \/ x[1] = 9 /\ x[2] = 223372036 /\ x[3] <= 854775807

\* decimal digit i of 21 of a number of three limbs, the most significant
\* first
Digit3(x, i) ==
    IF i <= 3 THEN (x[1] \div 10^(3 - i)) % 10
    ELSE IF i <= 12 THEN (x[2] \div 10^(12 - i)) % 10
    ELSE (x[3] \div 10^(21 - i)) % 10

RECURSIVE Low64(_, _)
\* the low 64 bits of the number made of the first i decimal digits of x,
\* as four words of 16 bits, the most significant first
Low64(x, i) ==
    IF i = 0 THEN <<0, 0, 0, 0>>
    ELSE LET p == Low64(x, i - 1)
             w0 == p[4] * 10 + Digit3(x, i)
             w1 == p[3] * 10 + w0 \div 65536
             w2 == p[2] * 10 + w1 \div 65536
             w3 == p[1] * 10 + w2 \div 65536
         IN <<w3 % 65536, w2 % 65536, w1 % 65536, w0 % 65536>>

\* a Duration of the minutes x, three limbs
MinutesValue(x) ==
    [kind |-> "Duration", grain |-> "Minute", n |-> x[3], high |-> x[2],
     top |-> x[1], precision |-> "Exact"]

\* integer.value * 60 + 30 in an i64: the product that does not fit panics
\* in a build with overflow checks and keeps its low 64 bits in a build
\* without
prod_integer_half_hours(overflow_checks, integer) ==
    LET minutes == Add3(Times60(<<0, integer.high, integer.value>>),
                        <<0, 0, 30>>)
    IN IF FitsI64(minutes) THEN MinutesValue(minutes)
       ELSE IF overflow_checks THEN Panic
       ELSE [kind |-> "Duration", grain |-> "Minute",
             bits |-> Low64(minutes, 21), precision |-> "Exact"]

prod_last_n_cycle(integer, cycle) ==
    cycle_n_not_immediate(cycle.grain, (0 - 1) * integer.value)

\* Romanised syllables: yeo U+C5EC, reum U+B984, ga U+AC00, eul U+C744,
\* gyeo U+ACA8, ul U+C6B8, bom U+BD04.
\* the four rules named "season"
rule_season_summer ==
    [name |-> "season", pat |-> <<Reg(<< <<Lit("yeo"), Lit("reum")>> >>)>>]

rule_season_autumn ==
    [name |-> "season", pat |-> <<Reg(<< <<Lit("ga"), Lit("eul")>> >>)>>]

rule_season_winter ==
    [name |-> "season", pat |-> <<Reg(<< <<Lit("gyeo"), Lit("ul")>> >>)>>]

rule_season_spring ==
    [name |-> "season", pat |-> <<Reg(<< <<Lit("bom")>> >>)>>]

\* the productions of the four rules named "season" with every span
\* inclusive
prod_season_inclusive(text_match) ==
    CASE text_match = <<"yeo", "reum">> ->
            span_to(month_day(6, 21), month_day(9, 23), TRUE)
      [] text_match = <<"ga", "eul">> ->
            span_to(month_day(9, 23), month_day(12, 21), TRUE)
      [] text_match = <<"gyeo", "ul">> ->
            span_to(month_day(12, 21), month_day(3, 20), TRUE)
      [] text_match = <<"bom">> ->
            span_to(month_day(3, 20), month_day(6, 21), TRUE)

\* the productions of the four rules named "season": the rules share their
\* name, the word matched tells which of the four productions runs
prod_season(text_match) ==
    CASE text_match = <<"yeo", "reum">> ->
            span_to(month_day(6, 21), month_day(9, 23), FALSE)
      [] text_match = <<"ga", "eul">> ->
            span_to(month_day(9, 23), month_day(12, 21), FALSE)
      [] text_match = <<"gyeo", "ul">> ->
            span_to(month_day(12, 21), month_day(3, 20), FALSE)
      [] text_match = <<"bom">> ->
            span_to(month_day(3, 20), month_day(6, 21), FALSE)

\* Romanised syllables: wol U+C6D4, bun U+BD84, cho U+CD08.
\* "month" taking any integer from 1 up
rule_month_unbounded ==
    [name |-> "month",
     pat |-> <<IntMin(1), Reg(<< <<Lit("wol")>> >>)>>]

rule_month ==
    [name |-> "month",
     pat |-> <<IntCheck(1, 12), Reg(<< <<Lit("wol")>> >>)>>]

\* ((?:[01]?\d)|(?:2[0-3]))[:.]([0-5]\d): the alternatives of the first
\* group, each followed by the rest
rule_hh_mm ==
    [name |-> "hh:mm",
     pat |-> <<Reg(<< <<Cls({"0", "1"}, 0, 1), Cls(Digits, 1, 1),
                        Cls({":", "."}, 1, 1),
                        Cls({"0", "1", "2", "3", "4", "5"}, 1, 1),
                        Cls(Digits, 1, 1)>>,
                      <<Lit("2"), Cls({"0", "1", "2", "3"}, 1, 1),
                        Cls({":", "."}, 1, 1),
                        Cls({"0", "1", "2", "3", "4", "5"}, 1, 1),
                        Cls(Digits, 1, 1)>> >>)>>]

\* ((?:[01]?\d)|(?:2[0-3]))[:.]([0-5]\d)[:.]([0-5]\d)
rule_hh_mm_ss ==
    [name |-> "hh:mm:ss",
     pat |-> <<Reg(<< <<Cls({"0", "1"}, 0, 1), Cls(Digits, 1, 1),
                        Cls({":", "."}, 1, 1),
                        Cls({"0", "1", "2", "3", "4", "5"}, 1, 1),
                        Cls(Digits, 1, 1),
                        Cls({":", "."}, 1, 1),
                        Cls({"0", "1", "2", "3", "4", "5"}, 1, 1),
                        Cls(Digits, 1, 1)>>,
                      <<Lit("2"), Cls({"0", "1", "2", "3"}, 1, 1),
                        Cls({":", "."}, 1, 1),
                        Cls({"0", "1", "2", "3", "4", "5"}, 1, 1),
                        Cls(Digits, 1, 1),
                        Cls({":", "."}, 1, 1),
                        Cls({"0", "1", "2", "3", "4", "5"}, 1, 1),
                        Cls(Digits, 1, 1)>> >>)>>]

rule_number_relative_minutes ==
    [name |-> "number (as relative minutes)",
     pat |-> <<IntCheck(1, 59), Reg(<< <<Lit("bun")>> >>)>>]

rule_seconds ==
    [name |-> "seconds",
     pat |-> <<IntCheck(1, 59), Reg(<< <<Lit("cho")>> >>)>>]

\* number of characters of the text before its first ':' or '.'
GroupEnd(text) ==
    IF \E i \in DOMAIN text : text[i] \in {":", "."}
    THEN (CHOOSE i \in DOMAIN text :
            /\ text[i] \in {":", "."}
            /\ \A j \in 1..(i - 1) : text[j] \notin {":", "."}) - 1
    ELSE Len(text)

\* text_match.group(1), group(2) and group(3) of hh:mm and hh:mm:ss, parsed
HourGroup(text) == parse_i64(SubSeq(text, 1, GroupEnd(text)))[2]
MinuteGroup(text) ==
    parse_i64(SubSeq(text, GroupEnd(text) + 2, GroupEnd(text) + 3))[2]
SecondGroup(text) ==
    parse_i64(SubSeq(text, GroupEnd(text) + 5, GroupEnd(text) + 6))[2]

prod_hh_mm(text_match) ==
    hour_minute(HourGroup(text_match), MinuteGroup(text_match), TRUE)

prod_hh_mm_ss(text_match) ==
    hour_minute_second(HourGroup(text_match), MinuteGroup(text_match),
                       SecondGroup(text_match), TRUE)

prod_number_relative_minutes(integer) == RelativeMinuteValue(integer.value)

prod_seconds(integer) == second(integer.value)

\* production of "month"
prod_month(integer) == month(integer.value)

\* production of "first ordinal"
prod_first_ordinal == OrdinalValue(1)

\* production of "ordinals (cheot-beon-jjae)"
prod_ordinals(a) == OrdinalValue(a.value)

prod_tod_am(tod) ==
    LET day_period == span_to(hour(0, FALSE), hour(12, FALSE), FALSE)
    IN form(intersect(tod, day_period), Form("TimeOfDay", -1))

prod_tod_pm(tod) ==
    LET day_period == span_to(hour(12, FALSE), hour(0, FALSE), FALSE)
    IN form(intersect(tod, day_period), Form("TimeOfDay", -1))

prod_from_to(a, b) == span_to(a, b, TRUE)

\* the production of the rule called name, applied to the matched children:
\* the matched text of a literal matcher, the value of a typed one
Produce(name, kids) ==
    CASE name = rule_integer_numeric.name -> prod_integer_numeric(kids[1].text)
      [] name = rule_integer_type1.name -> prod_integer_type1(kids[1].text)
      [] name = rule_integer_type2.name -> prod_integer_type2(kids[1].text)
      [] name = rule_integer_tens.name -> prod_integer_tens(kids[1].text)
      [] name = rule_integer_11_99.name -> prod_integer_11_99(kids[1], kids[2])
      [] name = rule_half.name -> prod_half
      [] name = rule_half_relative_minutes.name -> prod_half_relative_minutes
      [] name = rule_night.name -> prod_night
      [] name = rule_day_korean_1_9.name -> prod_day_korean_1_9(kids[1].text)
      [] name = rule_day.name -> prod_day(kids[1])
      [] name = rule_time_of_day_latent.name ->
            prod_time_of_day_latent(kids[1])
      [] name = rule_time_of_day.name -> prod_time_of_day(kids[1])
      [] name = rule_hour_relative_minutes.name ->
            prod_hour_relative_minutes(kids[1], kids[2])
      [] name = rule_hour_integer.name -> prod_hour_integer(kids[1], kids[2])
      [] name = rule_hour_uod.name -> UnitOfDurationValue("Hour")
      [] name = rule_day_uod.name -> UnitOfDurationValue("Day")
      [] name = rule_hour_cycle.name -> CycleValue("Hour")
      [] name = rule_day_cycle.name -> CycleValue("Day")
      [] name = rule_integer_uod.name -> prod_integer_uod(kids[1], kids[2])
      [] name = rule_tod_am.name -> prod_tod_am(kids[2])
      [] name = rule_tod_pm.name -> prod_tod_pm(kids[2])
      [] name = rule_from_to.name -> prod_from_to(kids[1], kids[3])
      [] name = rule_month.name -> prod_month(kids[1])
      [] name = rule_hh_mm.name -> prod_hh_mm(kids[1].text)
      [] name = rule_hh_mm_ss.name -> prod_hh_mm_ss(kids[1].text)
      [] name = rule_number_relative_minutes.name ->
            prod_number_relative_minutes(kids[1])
      [] name = rule_seconds.name -> prod_seconds(kids[1])
      [] name = rule_year.name -> prod_year(kids[1])
      [] name = rule_season_summer.name -> prod_season(kids[1].text)
      [] name = rule_last_n_cycle.name -> prod_last_n_cycle(kids[2], kids[3])
      [] name = rule_day_korean_10_31.name ->
            prod_day_korean_10_31(kids[1].text)
      [] name = rule_time_approximately.name ->
            prod_time_approximately(kids[1])
      [] name = rule_time_of_day_approximately.name ->
            prod_time_of_day_approximately(kids[1])
      [] name = rule_about_time_of_day.name -> prod_about_time_of_day(kids[2])
      [] name = rule_exactly_time_of_day.name ->
            prod_exactly_time_of_day(kids[1])
      [] name = rule_about_duration.name -> prod_about_duration(kids[2])
      [] name = rule_exactly_duration.name -> prod_exactly_duration(kids[2])
      [] name = rule_intersect.name -> prod_intersect(kids[1], kids[2])
      [] name = rule_date_e.name -> prod_date_e(kids[1])
      [] name = rule_time_of_day_e.name -> prod_time_of_day_e(kids[1])
      [] name = rule_hour_relative_minutes_before.name ->
            prod_hour_relative_minutes_before(kids[1], kids[2])
      [] name = rule_first_ordinal.name -> prod_first_ordinal
      [] name = rule_ordinals.name -> prod_ordinals(kids[1])
      [] name = rule_time_nth_time.name ->
            prod_time_nth_time(kids[1], kids[2], kids[3])
      [] name = rule_numbers_prefix.name -> prod_numbers_prefix(kids[2])
      [] name = rule_fraction.name ->
            prod_fraction(kids[1], kids[2].text, kids[3])

(***************************************************************************)
(* The chart parser.                                                       *)
(***************************************************************************)
\* weight the trained model gives rule number i of the rule set
Weight(model, i) == 0 - (1 + ((i + model) % 3))

RECURSIVE Routes(_, _, _, _, _)
\* the ways the matchers k.. of pattern pat cover adjacent spans from
\* position pos on, over the text s and the nodes of the chart
Routes(s, nodes, pat, k, pos) ==
    IF k > Len(pat) THEN {[kids |-> <<>>, hi |-> pos, score |-> 0]}
    ELSE LET mt == pat[k]
             firsts ==
                IF mt.m = "reg"
                THEN {[kid |-> [text |-> Slice(s, h.lo, h.hi)], hi |-> h.hi,
                       score |-> 0] : h \in {x \in Hits(s, mt.re) : x.lo = pos}}
                ELSE {[kid |-> n.value, hi |-> n.hi, score |-> n.score] :
                        n \in {x \in nodes : x.lo = pos /\ Accepts(mt, x.value)}}
         IN UNION {{[kids |-> <<f.kid>> \o r.kids, hi |-> r.hi,
                     score |-> f.score + r.score] :
                        r \in Routes(s, nodes, pat, k + 1, f.hi)} : f \in firsts}

\* positions at which the first matcher of a pattern can start
Starts(s, nodes, pat) ==
    IF pat[1].m = "reg" THEN {h.lo : h \in Hits(s, pat[1].re)}
    ELSE {n.lo : n \in nodes}

\* every derivation rule number i makes over the chart, production applied
Apply(p, i, s, nodes) ==
    LET rule == p.rules[i]
    IN UNION {{[rule |-> i, lo |-> lo, hi |-> r.hi,
                value |-> Produce(rule.name, r.kids),
                score |-> Weight(p.model, i) + r.score] :
                    r \in Routes(s, nodes, rule.pat, 1, lo)} :
              lo \in Starts(s, nodes, rule.pat)}

\* one round of the bottom-up closure
Derived(p, s, nodes) == UNION {Apply(p, i, s, nodes) : i \in DOMAIN p.rules}

\* a production of the round hit panic!
Panics(round) == \E n \in round : n.value = Panic

\* the chart after the round: failed productions are dropped
Extend(nodes, round) == nodes \cup {n \in round : ok(n.value)}

(***************************************************************************)
(* Ranking, kind filter and overlap removal of the raw parser.             *)
(***************************************************************************)
\* position of kind k in the kind order, 0 when it is not listed
Position(order, k) ==
    IF \E i \in DOMAIN order : order[i] = k
    THEN CHOOSE i \in DOMAIN order : order[i] = k /\ \A j \in 1..(i - 1) : order[j] # k
    ELSE 0

\* candidate a is preferred to candidate b: kind-order position, then
\* score, then longer span, then earlier start, then rule order
Better(a, b, order) ==
    LET pa == Position(order, Kind(a.value))
        pb == Position(order, Kind(b.value))
        la == a.hi - a.lo
        lb == b.hi - b.lo
    IN \/ pa < pb
       \/ pa = pb /\ a.score > b.score
       \/ pa = pb /\ a.score = b.score /\ la > lb
       \/ pa = pb /\ a.score = b.score /\ la = lb /\ a.lo < b.lo
       \/ pa = pb /\ a.score = b.score /\ la = lb /\ a.lo = b.lo
          /\ a.rule < b.rule

RECURSIVE Sorted(_, _)
\* the candidates from the most to the least preferred
Sorted(cands, order) ==
    IF cands = {} THEN <<>>
    ELSE LET best == CHOOSE x \in cands :
                        \A y \in cands \ {x} : ~Better(y, x, order)
         IN <<best>> \o Sorted(cands \ {best}, order)

\* two spans share a character
Overlap(a, b) == a.lo < b.hi /\ b.lo < a.hi

RECURSIVE Greedy(_, _)
\* keep each candidate that overlaps none of those kept before it
Greedy(seq, kept) ==
    IF seq = <<>> THEN kept
    ELSE IF \E i \in DOMAIN kept : Overlap(kept[i], Head(seq))
         THEN Greedy(Tail(seq), kept)
         ELSE Greedy(Tail(seq), Append(kept, Head(seq)))

\* ParserMatch<Dimension> of a chart node
RawMatch(s, n) ==
    [value |-> n.value,
     byte_range |-> <<ByteOffset(s, n.lo), ByteOffset(s, n.hi)>>,
     char_range |-> <<n.lo, n.hi>>,
     probalog |-> n.score,
     latent |-> IsLatent(n.value)]

\* rustling::Parser::parse_with_kind_order(input, order, remove_overlap)
\* over the closed chart
RawParseWithKindOrder(s, nodes, order, remove_overlap) ==
    LET cands == {n \in nodes : Position(order, Kind(n.value)) # 0}
        ranked == Sorted(cands, order)
        kept == IF remove_overlap THEN Greedy(ranked, <<>>) ELSE ranked
    IN [i \in DOMAIN kept |-> RawMatch(s, kept[i])]

\* rustling::Parser::parse(input, remove_overlap) over the closed chart:
\* every kind, none preferred
RawParse(s, nodes, remove_overlap) ==
    LET ranked == Sorted(nodes, <<>>)
        kept == IF remove_overlap THEN Greedy(ranked, <<>>) ELSE ranked
    IN [i \in DOMAIN kept |-> RawMatch(s, kept[i])]

(***************************************************************************)
(* The calendar and the resolver.  Day 0 is Sunday 2017-01-01; the years   *)
(* within the horizon have 365 days.                                       *)
(***************************************************************************)
\* last day the resolver looks at: the end of 2018
Horizon == 729

MonthLengths == <<31, 28, 31, 30, 31, 30, 31, 31, 30, 31, 30, 31>>

\* day of the year (0-based) on which month m starts
MonthStart(m) == <<0, 31, 59, 90, 120, 151, 181, 212, 243, 273, 304, 334>>[m]

MonthOf(d) ==
    CHOOSE m \in 1..12 :
        MonthStart(m) <= d % 365 /\ d % 365 < MonthStart(m) + MonthLengths[m]

\* day of the month, 1-based
Dom(d) == (d % 365) - MonthStart(MonthOf(d)) + 1

\* Weekday::Mon = 0 .. Weekday::Sun = 6
Dow(d) == (d + 6) % 7

RECURSIVE DayMatches(_, _)
\* day d belongs to the periodic set of a constraint of grain Day or coarser
DayMatches(c, d) ==
    CASE c.op = "DayOfMonth" -> Dom(d) = c.d
      [] c.op = "Month" -> MonthOf(d) = c.m
      [] c.op = "DayOfWeek" -> Dow(d) = c.w
      [] c.op = "Intersect" -> DayMatches(c.l, d) /\ DayMatches(c.r, d)
      [] OTHER -> TRUE

\* the n-th (0-based) day from d on that matches c, -1 past the horizon
NthDay(c, d, n) ==
    LET days == {e \in d..Horizon : DayMatches(c, e)}
    IN IF Cardinality(days) <= n THEN -1
       ELSE CHOOSE e \in days : Cardinality({f \in days : f < e}) = n

\* the n-th (0-based) day before d, going back, that matches c
NthDayBack(c, d, n) ==
    LET days == {e \in 0..(d - 1) : DayMatches(c, e)}
    IN IF Cardinality(days) <= n THEN -1
       ELSE CHOOSE e \in days : Cardinality({f \in days : f > e}) = n

\* hours of the day at which an occurrence of an Hour constraint starts: on
\* a 12-hour clock h stands for h and h + 12
HoursOf(c) ==
    IF c.clock12 /\ c.h < 12 THEN {c.h, c.h + 12}
    ELSE IF c.clock12 /\ c.h = 12 THEN {0, 12}
    ELSE {c.h % 24}

\* a moment of the calendar
Moment(d, h, m) == [day |-> d, hour |-> h, minute |-> m]

None == [kind |-> "None"]

RECURSIVE IsTimeOfDay(_)
\* the constraint names hours of the day: an hour, a daily period from one
\* hour to another, or an intersection of such
IsTimeOfDay(c) ==
    CASE c.op = "Hour" -> TRUE
      [] c.op = "Span" -> /\ c.from.op = "Hour" /\ c.to.op = "Hour"
                          /\ ~c.inclusive
      [] c.op = "Intersect" -> IsTimeOfDay(c.l) /\ IsTimeOfDay(c.r)
      [] OTHER -> FALSE

RECURSIVE HoursIn(_)
\* the hours of the day at which an occurrence of a time-of-day constraint
\* starts; a daily period from hour a to hour b holds a, a + 1, ... up to
\* the hour before b, going round the clock
HoursIn(c) ==
    CASE c.op = "Hour" -> HoursOf(c)
      [] c.op = "Span" ->
            LET a == c.from.h % 24
                b == c.to.h % 24
            IN IF a < b THEN a..(b - 1) ELSE (a..23) \cup (0..(b - 1))
      [] c.op = "Intersect" -> HoursIn(c.l) \cap HoursIn(c.r)

RECURSIVE MinuteIn(_)
\* the minute of the hour at which the occurrences start
MinuteIn(c) ==
    CASE c.op = "Hour" -> c.m
      [] c.op = "Intersect" ->
            IF MinuteIn(c.l) > MinuteIn(c.r) THEN MinuteIn(c.l) ELSE MinuteIn(c.r)
      [] OTHER -> 0

\* the first moment at or after the moment from, minute m of an hour of hs
NextAt(hs, m, from, strictly) ==
    LET today == {h \in hs :
                    \/ h > from.hour
                    \/ h = from.hour /\ m > from.minute
                    \/ h = from.hour /\ m = from.minute /\ ~strictly}
        pick(set) == CHOOSE h \in set : \A g \in set : h <= g
    IN IF hs = {} THEN None
       ELSE IF today # {} THEN Moment(from.day, pick(today), m)
       ELSE Moment(from.day + 1, pick(hs), m)

\* the moment one grain after moment t
EndOf(t, grain) ==
    IF grain = "Minute"
    THEN IF t.minute < 59 THEN Moment(t.day, t.hour, t.minute + 1)
         ELSE IF t.hour < 23 THEN Moment(t.day, t.hour + 1, 0)
         ELSE Moment(t.day + 1, 0, 0)
    ELSE IF t.hour < 23 THEN Moment(t.day, t.hour + 1, 0)
         ELSE Moment(t.day + 1, 0, 0)

\* the grain of a time-of-day constraint
TodGrain(c) == IF MinuteIn(c) = 0 THEN "Hour" ELSE "Minute"

\* the interval of a span between two times of day: it starts with the
\* occurrence of from that holds the reference or follows it and runs to
\* the first occurrence of to after that start, the whole of it when the
\* span is inclusive
SpanOccurrence(c, ref) ==
    LET hs == HoursIn(c.from)
        here == {h \in hs : h = ref.hour /\ MinuteIn(c.from) = 0}
        a == IF here # {} THEN Moment(ref.day, ref.hour, 0)
             ELSE NextAt(hs, MinuteIn(c.from), ref, FALSE)
        b == IF a = None THEN None
             ELSE NextAt(HoursIn(c.to), MinuteIn(c.to), a, TRUE)
    IN IF a = None \/ b = None THEN None
       ELSE [start |-> a,
             end |-> IF c.inclusive THEN EndOf(b, TodGrain(c.to)) ELSE b]

\* start of the first occurrence of the constraint that holds the reference
\* or follows it; None when there is none
FirstOccurrence(c, ref) ==
    CASE c.op = "Hour" ->
            LET today == {h \in HoursOf(c) :
                            \/ h > ref.hour
                            \/ h = ref.hour /\ (c.m = 0 \/ c.m >= ref.minute)}
                pick(hs) == CHOOSE h \in hs : \A g \in hs : h <= g
            IN IF today # {} THEN Moment(ref.day, pick(today), c.m)
               ELSE Moment(ref.day + 1, pick(HoursOf(c)), c.m)
      [] c.op = "Month" ->
            LET d == NthDay(c, ref.day, 0)
            IN IF d = -1 THEN None ELSE Moment(d - Dom(d) + 1, 0, 0)
      [] c.op = "Nth" ->
            LET d == IF c.n >= 0 THEN NthDay(c.base, ref.day, c.n)
                     ELSE NthDayBack(c.base, ref.day, 0 - c.n - 1)
            IN IF d = -1 THEN None ELSE Moment(d, 0, 0)
      [] c.op = "Intersect" /\ IsTimeOfDay(c) ->
            LET here == {h \in HoursIn(c) : h = ref.hour /\ MinuteIn(c) = 0}
            IN IF here # {} THEN Moment(ref.day, ref.hour, 0)
               ELSE NextAt(HoursIn(c), MinuteIn(c), ref, FALSE)
      [] c.op = "Span" -> None
      [] OTHER ->
            LET d == NthDay(c, ref.day, 0)
            IN IF d = -1 THEN None ELSE Moment(d, 0, 0)

\* ParsingContext::resolve(&Dimension) -> Option<Output>
resolve(context, v) ==
    CASE v.kind = "Number" ->
            IF v.num = "Integer"
            THEN [kind |-> "Integer", value |-> v.value, high |-> v.high,
                  precision |-> v.precision]
            ELSE [kind |-> "Float", value |-> v.value,
                  precision |-> v.precision]
      [] v.kind = "Ordinal" -> [kind |-> "Ordinal", value |-> v.value]
      [] v.kind = "Duration" ->
            [kind |-> "Duration", grain |-> v.grain, n |-> v.n,
             precision |-> v.precision]
      [] v.kind = "Time" ->
            IF v.latent THEN None
            ELSE IF /\ v.constraint.op = "Span"
                    /\ IsTimeOfDay(v.constraint.from)
                    /\ IsTimeOfDay(v.constraint.to)
            THEN LET i == SpanOccurrence(v.constraint, context.reference)
                 IN IF i = None THEN None
                    ELSE [kind |-> "TimeInterval", start |-> i.start,
                          end |-> i.end, grain |-> v.grain,
                          precision |-> v.precision]
            ELSE LET o == FirstOccurrence(v.constraint, context.reference)
                 IN IF o = None THEN None
                    ELSE [kind |-> "Time", start |-> o, grain |-> v.grain,
                          precision |-> v.precision]
      [] OTHER -> None

\* the DimensionKind an Output answers to
OutputKind(o) ==
    CASE o.kind \in {"Integer", "Float"} -> "Number"
      [] o.kind = "TimeInterval" -> "Time"
      [] OTHER -> o.kind

(***************************************************************************)
(* The facade: Parser, translate_values, parse, parse_with_kind_order.     *)
(***************************************************************************)
VARIABLES
    parser,   \* the Parser shared by the threads: its rule set and model
    call,     \* call[t]: the arguments thread t calls the Parser with
    pc,       \* pc[t]: where thread t is in its call
    chart,    \* chart[t]: the derivations found so far
    raw,      \* raw[t]: the matches the raw parser returned
    seen,     \* seen[t]: the indices of raw[t] that into_iter has yielded
    src,      \* src[t]: for each collected match, the index it came from
    out,      \* out[t]: the matches collected so far
    result,   \* result[t]: what the call returned
    prev,     \* prev[t]: what the thread's previous call returned
    num,      \* an i64 on its way through "integer (numeric)"
    nth,      \* a "<month> <ordinal> <day-of-week>" phrase on its way
              \* through "<time> nth <time>" and the resolver
    app       \* one rule on its way through an application: the children
              \* it is tried on, whether its pattern accepts them, and
              \* the value its production builds

Threads == 1..MaxThreads

\* the trained models a Parser may be built with
Models == {0, 1}

\* the reference instant of the ParsingContext of a lone call:
\* 2017-03-10 12:00
Contexts == {[reference |-> Moment(68, 12, 0)]}

\* the kind orders handed to parse_with_kind_order
Orders == {<<"Number">>, <<"Time", "Number">>, <<"Duration", "Time">>}

CallsOver(texts) ==
    [api : {"parse"}, input : texts, context : Contexts, order : {<<>>},
     remove_overlap : BOOLEAN]
    \cup [api : {"parse_with_kind_order"}, input : texts, context : Contexts,
          order : Orders, remove_overlap : BOOLEAN]

NoResult == [tag |-> "None", matches |-> <<>>]

\* build_parser(Lang::KO)
build_parser(model) == [rules |-> rule_set, model |-> model]

\* ParserAfterCall of a raw parser that wears out: a call takes the last
\* rule away
ParserAfterCall_rule_lost(p) ==
    [p EXCEPT !.rules = SubSeq(@, 1, Len(@) - 1)]

\* parse and parse_with_kind_order take the Parser by shared reference: the
\* Parser after a call is the Parser before it
ParserAfterCall(p) == p

\* translate_match with the two ranges taken from the wrong fields
translate_match_swapped(pm, o) ==
    [value |-> o,
     byte_range |-> pm.char_range,
     char_range |-> pm.byte_range,
     probalog |-> pm.probalog,
     latent |-> pm.latent]

\* the closure of translate_values: the ParserMatch<Output> of a raw match
\* that resolved to o
translate_match(pm, o) ==
    [value |-> o,
     byte_range |-> pm.byte_range,
     char_range |-> pm.char_range,
     probalog |-> pm.probalog,
     latent |-> pm.latent]

\* filter_map_item as map would do it: an unresolved match is kept, with no
\* value
filter_map_item_keep(context, pm) ==
    <<[value |-> resolve(context, pm.value),
       byte_range |-> pm.byte_range,
       char_range |-> pm.char_range,
       probalog |-> pm.probalog,
       latent |-> pm.latent]>>

\* filter_map's closure: nothing for a match that does not resolve
filter_map_item(context, pm) ==
    LET o == resolve(context, pm.value)
    IN IF o = None THEN <<>> ELSE <<translate_match(pm, o)>>

\* into_iter_next of an iterator taken from either end: the first or the
\* last match not yet yielded
into_iter_next_either_end(n, yielded) ==
    {i \in 1..n :
        /\ i \notin yielded
        /\ \/ \A j \in 1..(i - 1) : j \in yielded
           \/ \A j \in (i + 1)..n : j \in yielded}

\* into_iter: the index of the raw match yielded next
into_iter_next(n, yielded) ==
    {i \in 1..n : i \notin yielded /\ \A j \in 1..(i - 1) : j \in yielded}

\* collect_push as collecting into an Option would do it: one unresolved
\* match voids what was collected
collect_push_all_or_nothing(acc, item) ==
    IF item = <<>> THEN <<>> ELSE acc \o item

\* collect: the item, if any, is pushed at the end
collect_push(acc, item) == acc \o item

\* parse_raw with the flag not handed on
parse_raw_keep_overlap(c, nodes) == RawParse(c.input, nodes, FALSE)

\* the raw call parse makes: self.0.parse(input, remove_overlap)
parse_raw(c, nodes) == RawParse(c.input, nodes, c.remove_overlap)

\* parse_with_kind_order_raw calling the raw parse, the order not handed on
parse_with_kind_order_raw_any_kind(c, nodes) ==
    RawParse(c.input, nodes, c.remove_overlap)

\* the raw call parse_with_kind_order makes:
\* self.0.parse_with_kind_order(input, order, remove_overlap)
parse_with_kind_order_raw(c, nodes) ==
    RawParseWithKindOrder(c.input, nodes, c.order, c.remove_overlap)

\* thread t enters parse or parse_with_kind_order
Call(t) ==
    /\ pc[t] = "idle"
    /\ pc' = [pc EXCEPT ![t] = "chart"]
    /\ chart' = [chart EXCEPT ![t] = {}]
    /\ raw' = [raw EXCEPT ![t] = <<>>]
    /\ seen' = [seen EXCEPT ![t] = {}]
    /\ src' = [src EXCEPT ![t] = <<>>]
    /\ out' = [out EXCEPT ![t] = <<>>]
    /\ result' = [result EXCEPT ![t] = NoResult]
    /\ UNCHANGED <<parser, call, prev, num, nth, app>>

\* one round of the chart parser; the chart is closed when the round adds
\* nothing
ChartExtend(t) ==
    /\ pc[t] = "chart"
    /\ LET round == Derived(parser, call[t].input, chart[t])
           more == Extend(chart[t], round)
       IN /\ ~Panics(round)
          /\ chart' = [chart EXCEPT ![t] = more]
          /\ pc' = [pc EXCEPT ![t] = IF more = chart[t] THEN "closed" ELSE "chart"]
    /\ UNCHANGED <<parser, call, raw, seen, src, out, result, prev, num, nth, app>>

\* a production panics: the call unwinds and returns nothing
ChartPanic(t) ==
    /\ pc[t] = "chart"
    /\ Panics(Derived(parser, call[t].input, chart[t]))
    /\ pc' = [pc EXCEPT ![t] = "panicked"]
    /\ result' = [result EXCEPT ![t] = [tag |-> "Panic", matches |-> <<>>]]
    /\ UNCHANGED <<parser, call, chart, raw, seen, src, out, prev, num, nth, app>>

\* parse: self.0.parse(input, remove_overlap)?
RawParseDone(t) ==
    /\ pc[t] = "closed"
    /\ call[t].api = "parse"
    /\ raw' = [raw EXCEPT ![t] = parse_raw(call[t], chart[t])]
    /\ pc' = [pc EXCEPT ![t] = "translate"]
    /\ parser' = ParserAfterCall(parser)
    /\ UNCHANGED <<call, chart, seen, src, out, result, prev, num, nth, app>>

\* parse_with_kind_order:
\* self.0.parse_with_kind_order(input, order, remove_overlap)?
RawParseKindDone(t) ==
    /\ pc[t] = "closed"
    /\ call[t].api = "parse_with_kind_order"
    /\ raw' = [raw EXCEPT ![t] = parse_with_kind_order_raw(call[t], chart[t])]
    /\ pc' = [pc EXCEPT ![t] = "translate"]
    /\ parser' = ParserAfterCall(parser)
    /\ UNCHANGED <<call, chart, seen, src, out, result, prev, num, nth, app>>

\* translate_values handles the next raw match
TranslateStep(t) ==
    /\ pc[t] = "translate"
    /\ \E i \in into_iter_next(Len(raw[t]), seen[t]) :
          LET item == filter_map_item(call[t].context, raw[t][i])
          IN /\ seen' = [seen EXCEPT ![t] = @ \cup {i}]
             /\ out' = [out EXCEPT ![t] = collect_push(@, item)]
             /\ src' = [src EXCEPT ![t] =
                            IF item = <<>> THEN @ ELSE Append(@, i)]
    /\ UNCHANGED <<parser, call, pc, chart, raw, result, prev, num, nth, app>>

\* translate_values has collected every match: the call returns Ok
Return(t) ==
    /\ pc[t] = "translate"
    /\ seen[t] = 1..Len(raw[t])
    /\ result' = [result EXCEPT ![t] = [tag |-> "Ok", matches |-> out[t]]]
    /\ pc' = [pc EXCEPT ![t] = "done"]
    /\ UNCHANGED <<parser, call, chart, raw, seen, src, out, prev, num, nth, app>>

\* the caller keeps the result and is ready to call again
Again(t) ==
    /\ pc[t] = "done"
    /\ prev' = [prev EXCEPT ![t] = result[t]]
    /\ pc' = [pc EXCEPT ![t] = "idle"]
    /\ UNCHANGED <<parser, call, chart, raw, seen, src, out, result, num, nth, app>>

Step(t) ==
    \/ Call(t)
    \/ ChartExtend(t)
    \/ ChartPanic(t)
    \/ RawParseDone(t)
    \/ RawParseKindDone(t)
    \/ TranslateStep(t)
    \/ Return(t)
    \/ Again(t)

vars == <<parser, call, pc, chart, raw, seen, src, out, result, prev, num, nth, app>>

\* a call of no interest, for the threads that stay idle
IdleCall ==
    [api |-> "parse", input |-> <<>>, context |-> [reference |-> Moment(0, 0, 0)],
     order |-> <<>>, remove_overlap |-> FALSE]

InitRest ==
    /\ pc = [t \in Threads |-> "idle"]
    /\ chart = [t \in Threads |-> {}]
    /\ raw = [t \in Threads |-> <<>>]
    /\ seen = [t \in Threads |-> {}]
    /\ src = [t \in Threads |-> <<>>]
    /\ out = [t \in Threads |-> <<>>]
    /\ result = [t \in Threads |-> NoResult]
    /\ prev = [t \in Threads |-> NoResult]

\* no number, no phrase and no rule under way
NoNum == [stage |-> "none"]
NoNth == [stage |-> "none"]
NoApp == [stage |-> "none"]

\* one thread calls the Parser, again and again with the same arguments
Init ==
    /\ parser \in {build_parser(m) : m \in Models}
    /\ \E c \in CallsOver(Texts(MaxLen)) :
          call = [t \in Threads |-> IF t = 1 THEN c ELSE IdleCall]
    /\ InitRest
    /\ num = NoNum
    /\ nth = NoNth
    /\ app = NoApp

Next == Step(1)

Spec == Init /\ [][Next]_vars

(***************************************************************************)
(* Parallel parses: every thread calls the one Parser once, the steps of   *)
(* the calls interleaved.                                                  *)
(***************************************************************************)
\* 3-si (three o'clock), yeol-dul (twelve), |-il
ParCalls ==
    {[api |-> "parse", input |-> <<"3", "si">>,
      context |-> [reference |-> Moment(68, 12, 0)],
      order |-> <<>>, remove_overlap |-> FALSE],
     [api |-> "parse_with_kind_order", input |-> <<"yeol", "dul">>,
      context |-> [reference |-> Moment(0, 0, 0)],
      order |-> <<"Number">>, remove_overlap |-> TRUE],
     [api |-> "parse", input |-> <<"|", "il">>,
      context |-> [reference |-> Moment(0, 0, 0)],
      order |-> <<>>, remove_overlap |-> TRUE]}

InitPar ==
    /\ parser \in {build_parser(m) : m \in Models}
    /\ call \in [Threads -> ParCalls]
    /\ InitRest
    /\ num = NoNum
    /\ nth = NoNth
    /\ app = NoApp

NextPar ==
    \E t \in Threads :
        \/ Call(t)
        \/ ChartExtend(t)
        \/ ChartPanic(t)
        \/ RawParseDone(t)
        \/ RawParseKindDone(t)
        \/ TranslateStep(t)
        \/ Return(t)

SpecPar == InitPar /\ [][NextPar]_vars

RECURSIVE ChartAlone(_, _, _)
\* the chart of a call that runs alone: rounds up to the closure; {Panic}
\* when a production panics
ChartAlone(p, s, nodes) ==
    LET round == Derived(p, s, nodes)
        more == Extend(nodes, round)
    IN IF Panics(round) THEN {Panic}
       ELSE IF more = nodes THEN nodes
       ELSE ChartAlone(p, s, more)

RECURSIVE translate_values(_, _)
\* translate_values(input, context), as one function
translate_values(input, context) ==
    IF input = <<>> THEN <<>>
    ELSE filter_map_item(context, Head(input))
            \o translate_values(Tail(input), context)

\* what parse or parse_with_kind_order returns on a Parser nothing else uses
ParseAlone(p, c) ==
    LET nodes == ChartAlone(p, c.input, {})
    IN IF nodes = {Panic} THEN [tag |-> "Panic", matches |-> <<>>]
       ELSE [tag |-> "Ok",
             matches |->
                translate_values(
                    IF c.api = "parse" THEN parse_raw(c, nodes)
                    ELSE parse_with_kind_order_raw(c, nodes),
                    c.context)]

(***************************************************************************)
(* "integer (numeric)" on the decimal representation of an i64.            *)
(***************************************************************************)
Pow10(k) == 10^k

\* m * 10^k in limbs, m a digit
Scaled(m, k) == IF k < 9 THEN <<0, m * Pow10(k)>> ELSE <<m * Pow10(k - 9), 0>>

\* 10^k - 1 in limbs
Nines(k) == IF k <= 9 THEN <<0, Pow10(k) - 1>> ELSE <<Pow10(k - 9) - 1, Limb - 1>>

\* the numbers tried: 0, the numbers m * 10^k, the numbers 10^k - 1, and
\* numbers whose low limb has leading zeros
NumSamples ==
    {<<0, 0>>, <<123456789, 12345678>>, <<1, 1>>, <<999, 0>>}
    \cup {Scaled(m, k) : m \in {1, 9}, k \in 0..(MaxDigits - 1)}
    \cup {Scaled(1, MaxDigits)}
    \cup {Nines(k) : k \in 1..MaxDigits}

DigitChar(d) == <<"0", "1", "2", "3", "4", "5", "6", "7", "8", "9">>[d + 1]

RECURSIVE Padded(_, _)
\* the w last decimal digits of k, zero-padded
Padded(k, w) ==
    IF w = 0 THEN <<>> ELSE Append(Padded(k \div 10, w - 1), DigitChar(k % 10))

RECURSIVE Decimal(_)
\* the decimal digits of k > 0, no leading zero
Decimal(k) ==
    IF k = 0 THEN <<>> ELSE Append(Decimal(k \div 10), DigitChar(k % 10))

\* i64::to_string of a number that is not negative
to_string(n) ==
    IF n[1] = 0 THEN (IF n[2] = 0 THEN <<"0">> ELSE Decimal(n[2]))
    ELSE Decimal(n[1]) \o Padded(n[2], 9)

\* the rule the numbers go through
NumRule == rule_integer_numeric

\* the number is written out
NumFormat ==
    /\ num.stage = "number"
    /\ num' = [num EXCEPT !.stage = "text", !.text = to_string(num.n)]
    /\ UNCHANGED <<parser, call, pc, chart, raw, seen, src, out, result, prev, nth, app>>

\* the regex of the rule is run over the text
NumMatch ==
    /\ num.stage = "text"
    /\ num' = [num EXCEPT !.stage = "matched",
                          !.hits = Hits(num.text, NumRule.pat[1].re)]
    /\ UNCHANGED <<parser, call, pc, chart, raw, seen, src, out, result, prev, nth, app>>

\* the production of the rule is run on every match
NumProduce ==
    /\ num.stage = "matched"
    /\ num' = [num EXCEPT
                 !.stage = "produced",
                 !.nodes = {[lo |-> h.lo, hi |-> h.hi,
                             value |-> prod_integer_numeric(
                                           Slice(num.text, h.lo, h.hi))]
                            : h \in num.hits}]
    /\ UNCHANGED <<parser, call, pc, chart, raw, seen, src, out, result, prev, nth, app>>

InitNum ==
    /\ parser = build_parser(0)
    /\ call = [t \in Threads |-> IdleCall]
    /\ InitRest
    /\ \E n \in NumSamples :
          num = [stage |-> "number", n |-> n, text |-> <<>>, hits |-> {},
                 nodes |-> {}]
    /\ nth = NoNth
    /\ app = NoApp

NextNum == NumFormat \/ NumMatch \/ NumProduce

SpecNum == InitNum /\ [][NextNum]_vars

(***************************************************************************)
(* "<time> nth <time>" on a month, an ordinal and a day of the week, and   *)
(* the resolution of its value at a reference day.                         *)
(***************************************************************************)
\* the largest ordinal tried
MaxNth == 2

\* the reference days tried, all of 2017: 01-01, 02-01, 03-01, 03-07,
\* 03-10, 03-31, 07-20, 12-25
RefDays == {0, 31, 59, 65, 68, 89, 200, 358}

\* the months tried
NthMonths == {2, 3, 12}

\* Romanised syllables of the days of the week: wol U+C6D4, hwa U+D654,
\* su U+C218, mok U+BAA9, geum U+AE08, to U+D1A0, il U+C77C
Weekdays == <<"wol", "hwa", "su", "mok", "geum", "to", "il">>

\* production of "day-of-week"
prod_day_of_week(g) ==
    CASE g = "wol" -> day_of_week(0)
      [] g = "hwa" -> day_of_week(1)
      [] g = "su" -> day_of_week(2)
      [] g = "mok" -> day_of_week(3)
      [] g = "geum" -> day_of_week(4)
      [] g = "to" -> day_of_week(5)
      [] g = "il" -> day_of_week(6)
      [] OTHER -> Panic

\* the ordinal a phrase holds for k
OrdinalOf(k) == IF k = 1 THEN prod_first_ordinal ELSE prod_ordinals(IntegerValue(k))

\* the rule is applied to the three children of the phrase
NthProduce ==
    /\ nth.stage = "phrase"
    /\ nth' = [nth EXCEPT
                 !.stage = "value",
                 !.value = prod_time_nth_time(prod_month(IntegerValue(nth.m)),
                                              OrdinalOf(nth.k),
                                              prod_day_of_week(nth.w))]
    /\ UNCHANGED <<parser, call, pc, chart, raw, seen, src, out, result, prev, num, app>>

\* the value is resolved at the reference
NthResolve ==
    /\ nth.stage = "value"
    /\ nth' = [nth EXCEPT
                 !.stage = "resolved",
                 !.output = resolve([reference |-> Moment(nth.ref, 0, 0)],
                                    nth.value)]
    /\ UNCHANGED <<parser, call, pc, chart, raw, seen, src, out, result, prev, num, app>>

InitNth ==
    /\ parser = build_parser(0)
    /\ call = [t \in Threads |-> IdleCall]
    /\ InitRest
    /\ num = NoNum
    /\ \E ref \in RefDays, m \in NthMonths, k \in 1..MaxNth,
          w \in {Weekdays[i] : i \in {2, 5, 7}} :
          nth = [stage |-> "phrase", ref |-> ref, m |-> m, k |-> k, w |-> w,
                 value |-> None, output |-> None]
    /\ app = NoApp

NextNth == NthProduce \/ NthResolve

SpecNth == InitNth /\ [][NextNth]_vars

(***************************************************************************)
(* Properties of the facade.                                               *)
(***************************************************************************)
Range(f) == {f[i] : i \in DOMAIN f}

\* two byte ranges share a byte
BytesOverlap(a, b) ==
    a.byte_range[1] < b.byte_range[2] /\ b.byte_range[1] < a.byte_range[2]

NoOverlapIn(ms) ==
    \A i, j \in DOMAIN ms : i # j => ~BytesOverlap(ms[i], ms[j])

\* C1: for every input, parse returns normally and never panics: no input
\* drives a rule production into one of its panic! branches.
C1_NeverPanics == \A t \in Threads : result[t].tag # "Panic"

\* C2: with remove_overlap = true no two matches of the returned list have
\* overlapping byte ranges, neither in what the raw parser returns nor after
\* translate_values has dropped the matches that did not resolve.
C2_NoOverlap ==
    \A t \in Threads :
        call[t].remove_overlap =>
            /\ pc[t] \in {"translate", "done"} => NoOverlapIn(raw[t])
            /\ pc[t] = "done" => NoOverlapIn(result[t].matches)

\* a call with remove_overlap returned two matches, the chart holding
\* overlapping derivations that were removed
C2_Witness ==
    \E t \in Threads :
        /\ pc[t] = "done" /\ call[t].remove_overlap
        /\ Len(result[t].matches) >= 2
        /\ \E a, b \in chart[t] : a # b /\ Overlap(a, b)

\* C3: a match whose root value is latent never appears in the list parse
\* returns: every returned ParserMatch has latent = false.
C3_NoLatent ==
    \A t \in Threads :
        pc[t] = "done" =>
            \A i \in DOMAIN result[t].matches : ~result[t].matches[i].latent

\* the raw parser returned a latent match (a bare integer read as an hour,
\* or a bare part of day) and the call returned some other match
C3_Witness ==
    \E t \in Threads :
        /\ pc[t] = "done"
        /\ \E i \in DOMAIN raw[t] : raw[t][i].latent
        /\ Len(result[t].matches) >= 1

\* C5: when context.resolve returns None for the value of a raw match, that
\* match is absent from the result, every raw match that resolves is
\* present with its resolved value, and the call returns Ok.
C5_UnresolvedDropped ==
    \A t \in Threads :
        pc[t] = "done" =>
            /\ result[t].tag = "Ok"
            /\ Len(result[t].matches) = Len(src[t])
            /\ \A i \in DOMAIN raw[t] :
                  (resolve(call[t].context, raw[t][i].value) = None)
                      <=> i \notin Range(src[t])
            /\ \A j \in DOMAIN result[t].matches :
                  /\ j \in DOMAIN src[t]
                  /\ result[t].matches[j].value =
                        resolve(call[t].context, raw[t][src[t][j]].value)
                  /\ result[t].matches[j].value # None

\* a call returned although one raw match did not resolve and another did
C5_Witness ==
    \E t \in Threads :
        /\ pc[t] = "done"
        /\ \E i, j \in DOMAIN raw[t] :
              /\ resolve(call[t].context, raw[t][i].value) = None
              /\ ~raw[t][i].latent
              /\ resolve(call[t].context, raw[t][j].value) # None

\* C6: translate_values changes only the value of a match: each returned
\* ParserMatch has the byte_range, char_range, probalog and latent of the
\* raw match it was resolved from, the returned matches keep the relative
\* order of the raw matches, and byte_range and char_range designate the
\* same substring of the input.
C6_Frame ==
    \A t \in Threads :
        pc[t] \in {"translate", "done"} =>
            /\ Len(out[t]) = Len(src[t])
            /\ \A j \in DOMAIN out[t] :
                  j \in DOMAIN src[t] =>
                      LET pm == raw[t][src[t][j]]
                          m == out[t][j]
                      IN /\ m.byte_range = pm.byte_range
                         /\ m.char_range = pm.char_range
                         /\ m.probalog = pm.probalog
                         /\ m.latent = pm.latent
                         /\ j > 1 => src[t][j - 1] < src[t][j]
                         /\ m.byte_range =
                              <<ByteOffset(call[t].input, m.char_range[1]),
                                ByteOffset(call[t].input, m.char_range[2])>>
            /\ pc[t] = "done" => result[t].matches = out[t]

\* a call returned two matches, one of them over a multi-byte character,
\* and dropped a raw match
C6_Witness ==
    \E t \in Threads :
        /\ pc[t] = "done"
        /\ Len(result[t].matches) >= 2
        /\ Len(raw[t]) > Len(result[t].matches)
        /\ \E j \in DOMAIN result[t].matches :
              result[t].matches[j].byte_range # result[t].matches[j].char_range

\* C7: every match returned by parse_with_kind_order has a value whose kind
\* is one of the kinds listed in order; with order = [Number] a compound
\* number phrase yields an integer output as its first match.
C7_KindListed ==
    \A t \in Threads :
        (pc[t] = "done" /\ call[t].api = "parse_with_kind_order") =>
            /\ \A i \in DOMAIN result[t].matches :
                  OutputKind(result[t].matches[i].value) \in Range(call[t].order)
            /\ (call[t].order = <<"Number">> /\ call[t].input = <<"yeol", "dul">>)
                  => /\ Len(result[t].matches) >= 1
                     /\ result[t].matches[1].value.kind = "Integer"

\* parse_with_kind_order returned from the compound number yeol-dul (12)
\* under the order [Number], the chart holding derivations of other kinds
C7_Witness ==
    \E t \in Threads :
        /\ pc[t] = "done" /\ call[t].api = "parse_with_kind_order"
        /\ call[t].order = <<"Number">> /\ call[t].input = <<"yeol", "dul">>
        /\ \E n \in chart[t] : Kind(n.value) # "Number"
        /\ \E n \in chart[t] : n.value = IntegerValue(12)

C9_Isolated ==
    /\ parser \in {build_parser(m) : m \in Models}
    /\ \A t \in Threads :
          pc[t] \in {"done", "panicked"} =>
              result[t] = ParseAlone(parser, call[t])

\* a call has returned matches while a call with other arguments, on
\* another thread, is in the middle of translate_values
C9_Witness ==
    \E t, u \in Threads :
        /\ t # u /\ call[t] # call[u]
        /\ pc[t] = "done" /\ Len(result[t].matches) >= 1
        /\ pc[u] = "translate" /\ Len(out[u]) >= 1 /\ seen[u] # 1..Len(raw[u])

RECURSIVE RemoveOverlap(_, _)
\* overlap removal over a returned list, taken in the order of the list:
\* a match is kept when it shares no byte with a match kept before it
RemoveOverlap(ms, kept) ==
    IF ms = <<>> THEN kept
    ELSE IF \E i \in DOMAIN kept : BytesOverlap(kept[i], Head(ms))
         THEN RemoveOverlap(Tail(ms), kept)
         ELSE RemoveOverlap(Tail(ms), Append(kept, Head(ms)))

\* what the call c returns with remove_overlap = false on the same Parser
WithoutRemoval(p, c) == ParseAlone(p, [c EXCEPT !.remove_overlap = FALSE])

C23_Witness ==
    \E t \in Threads :
        /\ pc[t] = "done" /\ call[t].api = "parse" /\ call[t].remove_overlap
        /\ \E i \in DOMAIN raw[t] :
              /\ resolve(call[t].context, raw[t][i].value) = None
              /\ \E n \in chart[t] :
                    /\ resolve(call[t].context, n.value) # None
                    /\ BytesOverlap(raw[t][i], RawMatch(call[t].input, n))

(***************************************************************************)
(* Properties of "integer (numeric)".                                      *)
(***************************************************************************)
\* the rule produced an Integer of value n over the whole text
WholeInteger(n) ==
    \E x \in num.nodes :
        /\ x.lo = 0 /\ x.hi = Len(num.text)
        /\ x.value = [IntegerValue(n[2]) EXCEPT !.high = n[1]]

\* C4 as stated: for every N in 0..10^18, both ends included, the decimal
\* representation of N yields an Integer of value N that covers the whole
\* digit string.
C4_UpTo10Pow18 ==
    num.stage = "produced" => WholeInteger(num.n)

\* C4, amended: for every N in 0..10^18 - 1 the decimal representation of
\* N yields an Integer of value N that covers the whole digit string, and
\* the rule yields nothing else.
C4_Below10Pow18 ==
    (num.stage = "produced" /\ num.n[1] < Limb) =>
        /\ WholeInteger(num.n)
        /\ Cardinality(num.nodes) = 1

\* 10^18 - 1, eighteen digits, has gone through the rule
C4_Witness ==
    /\ num.stage = "produced"
    /\ num.n = <<Limb - 1, Limb - 1>>
    /\ Len(num.text) = MaxDigits

(***************************************************************************)
(* Properties of "<time> nth <time>".                                      *)
(***************************************************************************)
\* the days of month m of year y (0 is 2017)
DaysOfMonth(y, m) ==
    {y * 365 + MonthStart(m) + i : i \in 0..(MonthLengths[m] - 1)}

\* the k-th day of month m of year y that falls on weekday w, as a set
KthWeekday(y, m, k, w) ==
    {d \in DaysOfMonth(y, m) :
        /\ Dow(d) = w
        /\ Cardinality({e \in DaysOfMonth(y, m) : e < d /\ Dow(e) = w}) = k - 1}

\* C10: for every reference instant, '<month> <k-th ordinal> <day-of-week>'
\* denotes the k-th occurrence of that weekday inside that month, at grain
\* Day.
C10_KthWeekdayOfMonth ==
    nth.stage = "resolved" =>
        /\ nth.output # None
        /\ nth.output.grain = "Day"
        /\ \E y \in 0..(Horizon \div 365) :
              \E d \in KthWeekday(y, nth.m, nth.k,
                                  prod_day_of_week(nth.w).constraint.w) :
                  nth.output.start = Moment(d, 0, 0)

(***************************************************************************)
(* One rule applied to given children: its pattern is matched against      *)
(* them, its production is run on every match and the values built are     *)
(* resolved at a reference instant.  A child is a value, or a text that a  *)
(* literal of the pattern is searched in.                                  *)
(***************************************************************************)
Txt(t) == [text |-> t]

RECURSIVE KidRoutes(_, _, _)
\* the ways the matchers pat[k..] take the children kids[k..]: a literal
\* takes each match of its regex in the text, a typed matcher the value it
\* accepts
KidRoutes(pat, kids, k) ==
    IF k > Len(pat) THEN {<<>>}
    ELSE LET heads ==
                 IF pat[k].m = "reg"
                 THEN {Txt(Slice(kids[k].text, h.lo, h.hi)) :
                          h \in Hits(kids[k].text, pat[k].re)}
                 ELSE IF Accepts(pat[k], kids[k]) THEN {kids[k]} ELSE {}
         IN {<<h>> \o r : h \in heads, r \in KidRoutes(pat, kids, k + 1)}

NewApp(rule, kids, ref) ==
    [stage |-> "children", rule |-> rule, kids |-> kids, ref |-> ref,
     routes |-> {}, built |-> {}, outputs |-> {}]

\* the pattern of the rule is matched against the children
AppMatch ==
    /\ app.stage = "children"
    /\ app' = [app EXCEPT !.stage = "matched",
                          !.routes = KidRoutes(app.rule.pat, app.kids, 1)]
    /\ UNCHANGED <<parser, call, pc, chart, raw, seen, src, out, result, prev, num, nth>>

\* the production of the rule is run on every match
AppProduce ==
    /\ app.stage = "matched"
    /\ app' = [app EXCEPT
                 !.stage = "produced",
                 !.built = {[kids |-> r, value |-> Produce(app.rule.name, r)]
                            : r \in app.routes}]
    /\ UNCHANGED <<parser, call, pc, chart, raw, seen, src, out, result, prev, num, nth>>

\* the values built are resolved at the reference
AppResolve ==
    /\ app.stage = "produced"
    /\ app' = [app EXCEPT
                 !.stage = "resolved",
                 !.outputs = {[value |-> b.value,
                               output |-> resolve([reference |-> app.ref],
                                                  b.value)]
                              : b \in {x \in app.built : ok(x.value)}}]
    /\ UNCHANGED <<parser, call, pc, chart, raw, seen, src, out, result, prev, num, nth>>

NextApp == AppMatch \/ AppProduce \/ AppResolve

\* everything but the rule under way is at rest
InitAppRest ==
    /\ parser = build_parser(0)
    /\ call = [t \in Threads |-> IdleCall]
    /\ InitRest
    /\ num = NoNum
    /\ nth = NoNth

(***************************************************************************)
(* "from <time> to <time>" over a time of day of the morning and one of    *)
(* the afternoon.                                                          *)
(***************************************************************************)
\* the reference instants tried: 2017-01-01 and 2017-03-10, at 00:00,
\* 09:00, 09:30, 12:00, 18:00, 18:30 and 23:00
RefMoments ==
    {Moment(d, hm[1], hm[2]) :
        d \in {0, 68},
        hm \in {<<0, 0>>, <<9, 0>>, <<9, 30>>, <<12, 0>>, <<18, 0>>,
                <<18, 30>>, <<23, 0>>}}

\* <h> si: the time of day "time-of-day" builds from the integer h
TimeOfDayOf(h) == Produce(rule_time_of_day.name, <<IntegerValue(h), Txt(<<"si">>)>>)

\* a-chim <h> si
MorningOf(h) == Produce(rule_tod_am.name, <<Txt(<<"a", "chim">>), TimeOfDayOf(h)>>)

\* o-hu <h> si
AfternoonOf(h) == Produce(rule_tod_pm.name, <<Txt(<<"o", "hu">>), TimeOfDayOf(h)>>)

InitSpan ==
    /\ InitAppRest
    /\ \E a \in {1, 9, 11}, b \in {1, 6, 11}, ref \in RefMoments :
          app = NewApp(rule_from_to,
                       <<MorningOf(a), Txt(<<"bu", "teo">>),
                         AfternoonOf(b), Txt(<<"kka", "ji">>)>>,
                       ref)

SpecSpan == InitSpan /\ [][NextApp]_vars

\* C11: 'A bu-teo B kka-ji' over a time of day of the morning and one of
\* the afternoon yields one interval that starts at the start of A and
\* ends at the hour named by B, on the same calendar day, at grain Hour.
C11_FromMorningToAfternoon ==
    app.stage = "resolved" =>
        /\ Cardinality(app.outputs) = 1
        /\ \A o \in app.outputs :
              /\ o.output # None
              /\ o.output.kind = "TimeInterval"
              /\ o.output.grain = "Hour"
              /\ o.output.start.hour \in HoursIn(app.kids[1].constraint)
              /\ o.output.start.minute = 0
              /\ o.output.end.hour \in HoursIn(app.kids[3].constraint)
              /\ o.output.end.minute = 0
              /\ o.output.end.day = o.output.start.day
(***************************************************************************)
(* The rules that take a calendar or clock field, each applied alone to    *)
(* an integer or to a clock text.                                          *)
(***************************************************************************)
\* rule application without resolution
NextRule == AppMatch \/ AppProduce

\* the integers tried as a field: below, inside and above every range
FieldInts == (0 - 2)..61 \cup {99, 100}

\* the rules that take an integer field followed by a word
FieldRules ==
    {<<rule_month, <<"wol">>, 1, 12>>, <<rule_day, <<"il">>, 1, 31>>,
     <<rule_time_of_day, <<"si">>, 0, 24>>,
     <<rule_number_relative_minutes, <<"bun">>, 1, 59>>,
     <<rule_seconds, <<"cho">>, 1, 59>>}

\* the children the rule of field rule fr is tried on, for the integer n
FieldKids(fr, n) == <<IntegerValue(n), Txt(fr[2])>>

\* the clock texts tried: an hour, a separator, the minutes
ClockHours == {<<"0">>, <<"9">>, <<"0", "9">>, <<"1", "9">>, <<"2", "3">>,
               <<"2", "4">>, <<"2", "9">>, <<"3", "0">>}
ClockParts == {<<"0", "0">>, <<"3", "0">>, <<"5", "9">>, <<"6", "0">>,
               <<"9", "9">>}
ClockSeps == {<<":">>, <<".">>}
ClockTexts ==
    {h \o p \o m : h \in ClockHours, p \in ClockSeps, m \in ClockParts}
ClockTextsSec ==
    {h \o <<":">> \o m \o <<":">> \o x :
        h \in ClockHours, m \in ClockParts, x \in ClockParts}

InitField ==
    /\ InitAppRest
    /\ \/ \E fr \in FieldRules, n \in FieldInts :
             app = NewApp(fr[1], FieldKids(fr, n), Moment(68, 12, 0))
       \/ \E n \in FieldInts :
             app = NewApp(rule_time_of_day_latent, <<IntegerValue(n)>>,
                          Moment(68, 12, 0))
       \/ \E n \in FieldInts :
             app = NewApp(rule_hour_integer, <<TimeOfDayOf(3), IntegerValue(n)>>,
                          Moment(68, 12, 0))
       \/ \E t \in ClockTexts :
             app = NewApp(rule_hh_mm, <<Txt(t)>>, Moment(68, 12, 0))
       \/ \E t \in ClockTextsSec :
             app = NewApp(rule_hh_mm_ss, <<Txt(t)>>, Moment(68, 12, 0))

SpecField == InitField /\ [][NextRule]_vars

\* the range the rule called name takes its integer field from
FieldRange(name) ==
    CASE name = rule_month.name -> 1..12
      [] name = rule_day.name -> 1..31
      [] name = rule_time_of_day_latent.name -> 0..23
      [] name = rule_time_of_day.name -> 0..24
      [] name = rule_hour_integer.name -> 0..59
      [] name = rule_number_relative_minutes.name -> 0..59
      [] name = rule_seconds.name -> 0..59
      [] OTHER -> {}

\* the place of the integer child in the pattern of the rule called name
IntegerKid(name) == IF name = rule_hour_integer.name THEN 2 ELSE 1

\* C12: the rules that take a calendar or clock field accept the field only
\* inside its range: month 1..12, day 1..31, latent time-of-day 0..23,
\* time-of-day 0..24, the minutes after an hour 0..59, relative minutes and
\* seconds up to 59, and in hh:mm and hh:mm:ss an hour 0..23 with minutes
\* and seconds 00..59
C12_FieldsInRange ==
    \A r \in app.routes :
        CASE app.rule.name = rule_hh_mm.name ->
                /\ HourGroup(r[1].text) \in 0..23
                /\ MinuteGroup(r[1].text) \in 0..59
          [] app.rule.name = rule_hh_mm_ss.name ->
                /\ HourGroup(r[1].text) \in 0..23
                /\ MinuteGroup(r[1].text) \in 0..59
                /\ SecondGroup(r[1].text) \in 0..59
          [] OTHER ->
                r[IntegerKid(app.rule.name)].value \in FieldRange(app.rule.name)

\* a field at the end of its range is accepted and built
C12_Witness ==
    /\ app.stage = "produced"
    /\ app.rule.name = rule_hh_mm.name
    /\ \E b \in app.built :
          /\ Kind(b.value) = "Time"
          /\ b.value.constraint.h = 23
          /\ b.value.constraint.m = 59

(***************************************************************************)
(* "year" applied to the integer of a digit text.                          *)
(***************************************************************************)
\* the digit texts tried: a high part and a low part of nine digits, which
\* reach 2^31 - 1, 2^31, 2^32 - 1, 2^32 and 2^32 + 2017
YearTexts ==
    {to_string(<<hi, lo>>) :
        hi \in {0, 1, 2, 3, 4, 5, 999999999},
        lo \in {0, 1, 99, 100, 2017, 147483647, 147483648, 294967295,
                294967296, 294969313, 999999999}}

InitYear ==
    /\ InitAppRest
    /\ \E t \in YearTexts :
          app = NewApp(rule_year,
                       <<Produce(rule_integer_numeric.name, <<Txt(t)>>),
                         Txt(<<"nyeon">>)>>,
                       Moment(68, 12, 0))

SpecYear == InitYear /\ [][NextRule]_vars

\* the i64 of the integer is at least 100
AtLeast100(v) == v.high > 0 \/ v.value >= 100

\* C13: for every integer n >= 100 of up to 18 digits, "year" builds the
\* year that is literally n: the conversion of the 64-bit integer to the
\* argument of the year helper never changes its value
C13_YearIsLiteral ==
    \A b \in app.built :
        AtLeast100(b.kids[1]) =>
            /\ Kind(b.value) = "Time"
            /\ b.value.constraint.literal
            /\ b.value.constraint.year >= 0
            /\ b.value.constraint.year \div Limb = b.kids[1].high
            /\ b.value.constraint.year % Limb = b.kids[1].value

(***************************************************************************)
(* Derivations: a value grows by one rule application at a time, the rule  *)
(* taking the value as one child and leaves as the others.                 *)
(***************************************************************************)
\* the longest derivation followed
MaxDerivation == 3

\* a derivation that starts at the leaf value v
NewDerivation(v) == [stage |-> "derivation", value |-> v, path |-> <<>>]

\* one of the applications ds, each a rule and its children, is made: the
\* names of the rules applied are kept, the last one first
Derive(ds) ==
    /\ app.stage = "derivation"
    /\ Len(app.path) < MaxDerivation
    /\ \E d \in ds : \E r \in KidRoutes(d[1].pat, d[2], 1) :
          /\ ok(Produce(d[1].name, r))
          /\ app' = [app EXCEPT !.value = Produce(d[1].name, r),
                                !.path = <<d[1].name>> \o @]
    /\ UNCHANGED <<parser, call, pc, chart, raw, seen, src, out, result, prev, num, nth>>

\* the integers written next to a number
NumberLeaves == {IntegerValue(n) : n \in {1, 2, 5, 10}}

\* the applications of the prefix rule and of the two fraction rules that
\* take the number v as a child, the quotient being a number of tenths
NumberDerivations(v) ==
    {<<rule_numbers_prefix, <<Txt(<<"-">>), v>> >>}
    \cup {<<rule_fraction_slash, <<v, Txt(<<"/">>), l>> >> :
            l \in {x \in NumberLeaves :
                     ExactTenths(NumberTenths(v), NumberTenths(x))}}
    \cup {<<rule_fraction_slash, <<l, Txt(<<"/">>), v>> >> :
            l \in {x \in NumberLeaves :
                     ExactTenths(NumberTenths(x), NumberTenths(v))}}
    \cup {<<rule_fraction, <<v, Txt(<<"bun", "ui">>), l>> >> :
            l \in {x \in NumberLeaves :
                     ExactTenths(NumberTenths(x), NumberTenths(v))}}
    \cup {<<rule_fraction, <<l, Txt(<<"bun", "ui">>), v>> >> :
            l \in {x \in NumberLeaves :
                     ExactTenths(NumberTenths(v), NumberTenths(x))}}

DeriveNumber == Derive(NumberDerivations(app.value))

InitPrefix ==
    /\ InitAppRest
    /\ \E l \in NumberLeaves \cup {prod_half} : app = NewDerivation(l)

SpecPrefix == InitPrefix /\ [][DeriveNumber]_vars

\* how many times the rule called name is applied along path
Applications(name, path) ==
    Cardinality({i \in DOMAIN path : path[i] = name})

\* C14: the prefixed flag of a Number is write-once: no derivation applies
\* the negative-prefix rule twice along one path from its root to a leaf,
\* and a Number built from a prefixed Number, as by "fraction", is not
\* accepted by the prefix rule again
C14_PrefixedOnce == Applications(rule_numbers_prefix.name, app.path) <= 1

(***************************************************************************)
(* Ordinals: a text becomes an integer or the first ordinal, an integer    *)
(* takes the prefix or becomes an ordinal, an ordinal picks an occurrence. *)
(***************************************************************************)
\* the texts an ordinal starts from
OrdinalTexts ==
    {<<d>> : d \in Digits} \cup {<<"1", d>> : d \in Digits}
    \cup {<<"cheot">>, <<"cheot", "jjae">>}

OrdinalDerivations(v) ==
    IF "text" \in DOMAIN v
    THEN {<<rule_integer_numeric, <<v>> >>, <<rule_first_ordinal, <<v>> >>}
    ELSE {<<rule_numbers_prefix, <<Txt(<<"-">>), v>> >>,
          <<rule_ordinals, <<v, Txt(<<"beon", "jjae">>)>> >>,
          <<rule_time_nth_time, <<month(3), v, day_of_week(1)>> >>}

DeriveOrdinal == Derive(OrdinalDerivations(app.value))

InitOrdinal ==
    /\ InitAppRest
    /\ \E t \in OrdinalTexts : app = NewDerivation(Txt(t))

SpecOrdinal == InitOrdinal /\ [][DeriveOrdinal]_vars

\* C16: every Ordinal the rules produce is positional and 1-based, its
\* value at least 1, so that the occurrence index, ordinal - 1, handed to
\* the_nth is never negative
C16_OrdinalsFromOne ==
    "kind" \in DOMAIN app.value =>
        /\ Kind(app.value) = "Ordinal" => app.value.value >= 1
        /\ (Kind(app.value) = "Time" /\ app.value.constraint.op = "Nth") =>
                app.value.constraint.n >= 0

(***************************************************************************)
(* Relative minutes: the rules that build them and the two rules that add  *)
(* them to an hour, each applied alone.                                    *)
(***************************************************************************)
\* what "half (relative minutes)" builds from ban
HalfMinutes == Produce(rule_half_relative_minutes.name, <<Txt(<<"ban">>)>>)

\* the relative minutes the rules build
RelativeMinutes ==
    {HalfMinutes}
    \cup {Produce(rule_number_relative_minutes.name, r) :
            r \in UNION {KidRoutes(rule_number_relative_minutes.pat,
                                   <<IntegerValue(n), Txt(<<"bun">>)>>, 1) :
                         n \in FieldInts}}

\* the hours said before the minutes
SaidHours == 0..24

InitMinutes ==
    /\ InitAppRest
    /\ \/ \E rule \in {rule_half, rule_half_relative_minutes} :
             app = NewApp(rule, <<Txt(<<"ban">>)>>, Moment(68, 12, 0))
       \/ \E n \in FieldInts :
             app = NewApp(rule_number_relative_minutes,
                          <<IntegerValue(n), Txt(<<"bun">>)>>,
                          Moment(68, 12, 0))
       \/ \E h \in SaidHours, rm \in RelativeMinutes :
             app = NewApp(rule_hour_relative_minutes, <<TimeOfDayOf(h), rm>>,
                          Moment(68, 12, 0))
       \/ \E h \in SaidHours, rm \in RelativeMinutes :
             app = NewApp(rule_hour_relative_minutes_before,
                          <<TimeOfDayOf(h), rm, Txt(<<"jeon">>)>>,
                          Moment(68, 12, 0))

SpecMinutes == InitMinutes /\ [][NextApp]_vars

\* the rule has been applied
Produced == app.stage \in {"produced", "resolved"}

\* C15: ban on its own yields the Float 0.5; ban after a time-of-day with
\* the full hour h yields the time h:30; the same ban before jeon yields
\* h minus 30 minutes, the half hour before h
C15_Half ==
    Produced =>
        /\ app.rule.name = rule_half.name =>
                /\ app.built # {}
                /\ \A b \in app.built :
                      /\ Kind(b.value) = "Number"
                      /\ b.value.num = "Float"
                      /\ b.value.value = 5
        /\ (/\ app.rule.name = rule_hour_relative_minutes.name
            /\ app.kids[2] = HalfMinutes
            /\ app.kids[1].form.arg \in 0..23) =>
                /\ app.built # {}
                /\ \A b \in app.built :
                      /\ Kind(b.value) = "Time"
                      /\ b.value.constraint.h = app.kids[1].form.arg
                      /\ b.value.constraint.m = 30
        /\ (/\ app.rule.name = rule_hour_relative_minutes_before.name
            /\ app.kids[2] = HalfMinutes
            /\ app.kids[1].form.arg \in 0..23) =>
                /\ app.built # {}
                /\ \A b \in app.built :
                      /\ Kind(b.value) = "Time"
                      /\ (b.value.constraint.h * 60 + b.value.constraint.m)
                            = (app.kids[1].form.arg * 60 + 1440 - 30) % 1440

\* the half hour before nine is built
C15_Witness ==
    /\ Produced
    /\ app.rule.name = rule_hour_relative_minutes_before.name
    /\ app.kids[2] = HalfMinutes
    /\ \E b \in app.built :
          /\ Kind(b.value) = "Time"
          /\ b.value.constraint.h = 8
          /\ b.value.constraint.m = 30

\* the minute offset the rule called name hands to hour_relative_minute
\* for the matched children r
Offset(name, r) ==
    IF name = rule_hour_relative_minutes_before.name
    THEN (0 - 1) * r[2].minutes
    ELSE r[2].minutes

\* C17: every RelativeMinute the rules build holds minutes within -59..59,
\* and the offset handed to hour_relative_minute, the negated one of the
\* jeon rule included, stays within -59..59, so that no hour before 24 is
\* refused for its minutes
C17_MinutesInRange ==
    /\ \A rm \in RelativeMinutes : rm.minutes \in (0 - 59)..59
    /\ Produced =>
          /\ \A b \in app.built :
                Kind(b.value) = "RelativeMinute" =>
                    b.value.minutes \in (0 - 59)..59
          /\ app.rule.name \in {rule_hour_relative_minutes.name,
                                 rule_hour_relative_minutes_before.name} =>
                \A b \in app.built :
                    /\ Offset(app.rule.name, b.kids) \in (0 - 59)..59
                    /\ b.kids[1].form.arg \in 0..23 => ok(b.value)

\* 59 minutes before an hour are built: the offset is -59
C17_Witness ==
    /\ Produced
    /\ app.rule.name = rule_hour_relative_minutes_before.name
    /\ \E b \in app.built :
          /\ Offset(app.rule.name, b.kids) = 0 - 59
          /\ Kind(b.value) = "Time"
          /\ b.value.constraint.m = 1

(***************************************************************************)
(* The closure of the chart on its own, under rules that nest.             *)
(***************************************************************************)
\* the longest text closed over
MaxChartLen == 4

ChartAlphabet == {"3", "si", "e"}

ChartTexts ==
    UNION {[1..n -> ChartAlphabet] : n \in 0..MaxChartLen}

\* the rules of the closure, as a parser
ClosureParser ==
    [rules |-> <<rule_integer_numeric, rule_time_of_day_latent,
                 rule_time_of_day, rule_time_of_day_e, rule_date_e,
                 rule_intersect, rule_numbers_prefix>>,
     model |-> 0]

\* one round of the bottom-up closure; the chart is closed when the round
\* adds nothing
CloseRound ==
    /\ app.stage = "closing"
    /\ LET round == Derived(ClosureParser, app.input, app.nodes)
           more == Extend(app.nodes, round)
       IN app' = [app EXCEPT
                    !.stage = IF more = app.nodes THEN "closed" ELSE "closing",
                    !.nodes = more,
                    !.rounds = @ + 1]
    /\ UNCHANGED <<parser, call, pc, chart, raw, seen, src, out, result, prev, num, nth>>

InitClosure ==
    /\ InitAppRest
    /\ \E t \in ChartTexts :
          app = [stage |-> "closing", input |-> t, nodes |-> {}, rounds |-> 0]

SpecClosure == InitClosure /\ [][CloseRound]_vars

RECURSIVE KidSpans(_, _, _, _, _)
\* the spans of the children of every route of Routes, in the same order
KidSpans(s, nodes, pat, k, pos) ==
    IF k > Len(pat) THEN {<<>>}
    ELSE LET mt == pat[k]
             firsts ==
                IF mt.m = "reg"
                THEN {x \in Hits(s, mt.re) : x.lo = pos}
                ELSE {[lo |-> n.lo, hi |-> n.hi] :
                        n \in {x \in nodes : x.lo = pos /\ Accepts(mt, x.value)}}
         IN UNION {{<<f>> \o r : r \in KidSpans(s, nodes, pat, k + 1, f.hi)} :
                      f \in firsts}

\* no literal matcher of the rule matches the empty string
NeverEmpty(rule) ==
    \A k \in DOMAIN rule.pat :
        rule.pat[k].m = "reg" => MatchAlts(<<>>, 0, rule.pat[k].re) = -1

\* every application of a rule of two matchers or more covers more than
\* each of its children
SpansGrow(rule) ==
    Len(rule.pat) >= 2 =>
        \A lo \in Starts(app.input, app.nodes, rule.pat) :
            \A sp \in KidSpans(app.input, app.nodes, rule.pat, 1, lo) :
                \A j \in DOMAIN sp :
                    sp[j].hi - sp[j].lo < sp[Len(sp)].hi - lo

\* a rule of one typed matcher does not accept what it has built
NotOnOwnResult(i) ==
    LET rule == ClosureParser.rules[i]
    IN (Len(rule.pat) = 1 /\ rule.pat[1].m # "reg") =>
          \A n \in app.nodes : n.rule = i => ~Accepts(rule.pat[1], n.value)

ClosureIsSound ==
    \A i \in DOMAIN ClosureParser.rules :
        /\ NeverEmpty(ClosureParser.rules[i])
        /\ SpansGrow(ClosureParser.rules[i])
        /\ NotOnOwnResult(i)

\* the rounds the closure of a text of n characters can take: a derivation
\* grows by a character or keeps its span once, and a last round adds
\* nothing
MaxRounds(n) == 2 * n + 1

PrecisionTimes ==
    LET plain == {TimeOfDayOf(h) : h \in 0..23}
                 \cup {Produce(rule_time_of_day_latent.name,
                               <<IntegerValue(h)>>) : h \in 0..23}
    IN plain \cup {prod_time_approximately(t) : t \in plain}

\* the durations a precision word is said with
PrecisionDurations ==
    LET plain == {prod_integer_uod(IntegerValue(n), UnitOfDurationValue(g)) :
                    n \in 1..3, g \in {"Hour", "Day"}}
    IN plain \cup {prod_about_duration(d) : d \in plain}

InitPrecision ==
    /\ InitAppRest
    /\ \/ \E t \in PrecisionTimes :
             \/ app = NewApp(rule_time_approximately,
                             <<t, Txt(<<"gyeong">>)>>, Moment(68, 12, 0))
             \/ app = NewApp(rule_time_of_day_approximately,
                             <<t, Txt(<<"jjeum">>)>>, Moment(68, 12, 0))
             \/ app = NewApp(rule_about_time_of_day,
                             <<Txt(<<"yak">>), t>>, Moment(68, 12, 0))
             \/ app = NewApp(rule_exactly_time_of_day,
                             <<t, Txt(<<"jeong", "gak">>)>>, Moment(68, 12, 0))
       \/ \E d \in PrecisionDurations :
             \/ app = NewApp(rule_about_duration,
                             <<Txt(<<"yak">>), d>>, Moment(68, 12, 0))
             \/ app = NewApp(rule_exactly_duration,
                             <<Txt(<<"ttak">>), d>>, Moment(68, 12, 0))

SpecPrecision == InitPrecision /\ [][NextApp]_vars

\* C19: "exactly <time-of-day>" yields a time that is not latent and whose
\* precision is Exact, as "exactly <duration>" yields a duration of
\* precision Exact; only the approximately and about rules set the
\* precision Approximate
C19_ExactlyIsExact ==
    Produced =>
        /\ app.built # {}
        /\ \A b \in app.built :
              /\ Kind(b.value) = "Time" => ~b.value.latent
                    \/ app.rule.name = rule_time_approximately.name
              /\ b.value.precision =
                    IF app.rule.name \in {rule_exactly_time_of_day.name,
                                          rule_exactly_duration.name}
                    THEN "Exact" ELSE "Approximate"
        /\ app.stage = "resolved" =>
              \A o \in app.outputs :
                  o.output # None => o.output.precision = o.value.precision

(***************************************************************************)
(* "day with korean number - sip-il..sam-sip-il-il" applied to a text.     *)
(***************************************************************************)
\* the longest day text
MaxDayLen == 4

DayAlphabet == {"i", "sam", "|", "sip", "il", "gu"}

DayTexts == UNION {[1..n -> DayAlphabet] : n \in 1..MaxDayLen}

InitDay ==
    /\ InitAppRest
    /\ \E t \in DayTexts :
          app = NewApp(rule_day_korean_10_31, <<Txt(t)>>, Moment(68, 12, 0))

SpecDay == InitDay /\ [][NextRule]_vars

\* C20: for every text the rule "day with korean number - sip-il..
\* sam-sip-il-il" matches, the day number get_number computes and hands to
\* day_of_month lies in 10..31
C20_DayNumberInRange ==
    \A r \in app.routes : day_get_number(DayGroup(r[1].text)) \in 10..31

(***************************************************************************)
(* "integer - TYPE 1" applied to Sino-Korean numerals.                     *)
(***************************************************************************)
\* the syllable of the digit k: il U+C77C .. gu U+AD6C
DigitSyllable(k) ==
    <<"il", "i", "sam", "sa", "o", "yuk", "chil", "pal", "gu">>[k]

\* k units u written out: nothing for 0, the unit alone or after il for 1
UnitPart(k, u, bare) ==
    IF k = 0 THEN <<>>
    ELSE IF k = 1 /\ bare THEN <<u>>
    ELSE <<DigitSyllable(k), u>>

\* the numeral of the group value g in 0..9999
GroupNumeral(g, bare) ==
    UnitPart(g \div 1000, "cheon", bare)
    \o UnitPart((g \div 100) % 10, "baek", bare)
    \o UnitPart((g \div 10) % 10, "sip", bare)
    \o (IF g % 10 = 0 THEN <<>> ELSE <<DigitSyllable(g % 10)>>)

\* g times the unit u written out: the unit alone for 1 when bare
BigPart(g, u, bare) ==
    IF g = 0 THEN <<>>
    ELSE IF g = 1 /\ bare THEN <<u>>
    ELSE GroupNumeral(g, bare) \o <<u>>

\* the numeral of q[1] * 10^12 + q[2] * 10^8 + q[3] * 10^4 + q[4]
Numeral(q, bare) ==
    BigPart(q[1], "jo", bare) \o BigPart(q[2], "eok", bare)
    \o BigPart(q[3], "man", bare) \o GroupNumeral(q[4], bare)

\* the group values tried
GroupValues == {0, 1, 10, 2345, 9999}

Quads == {q \in [1..4 -> GroupValues] : \E i \in 1..4 : q[i] # 0}

InitSino ==
    /\ InitAppRest
    /\ \E q \in Quads, bare \in BOOLEAN :
          app = NewApp(rule_integer_type1, <<Txt(Numeral(q, bare))>>,
                       Moment(68, 12, 0))

SpecSino == InitSino /\ [][NextRule]_vars

\* the Integer of q[1] * 10^12 + q[2] * 10^8 + q[3] * 10^4 + q[4]
QuadValue(q) ==
    [kind |-> "Number", num |-> "Integer",
     value |-> (q[2] % 10) * 100000000 + q[3] * 10000 + q[4],
     high |-> 1000 * q[1] + q[2] \div 10,
     precision |-> "Exact", prefixed |-> FALSE, suffixed |-> FALSE]

\* C21: for every Sino-Korean numeral below 10^16, a unit with no leading
\* digit counting as one of that unit, "integer - TYPE 1" yields the
\* integer value of the numeral; each bare unit sip, baek, cheon, man,
\* eok, jo yields 10, 100, 1000, 10^4, 10^8, 10^12
C21_NumeralValue ==
    app.stage = "produced" =>
        /\ app.built # {}
        /\ \A q \in Quads, bare \in BOOLEAN :
              app.kids[1].text = Numeral(q, bare) =>
                  \A b \in app.built : b.value = QuadValue(q)

(***************************************************************************)
(* Integer arithmetic of the productions, on the integers of digit texts.  *)
(***************************************************************************)
\* the digit texts tried: up to 18 digits, around (2^63 - 31) / 60 =
\* 153722867280912929 and up to 10^18 - 1
ArithTexts ==
    {to_string(<<hi, lo>>) :
        hi \in {0, 1, 153722866, 153722867, 153722868, 999999999},
        lo \in {0, 1, 9999, 280912929, 280912930, 999999999}}

\* the production of the rule called name in a build with or without
\* overflow checks
ProduceIn(overflow_checks, name, kids) ==
    IF name = rule_integer_half_hours.name
    THEN prod_integer_half_hours(overflow_checks, kids[1])
    ELSE Produce(name, kids)

\* the production of the rule is run on every match, in either build
ArithProduce ==
    /\ app.stage = "matched"
    /\ \E overflow_checks \in BOOLEAN :
          app' = [app EXCEPT
                    !.stage = "produced",
                    !.built = {[kids |-> r,
                                value |-> ProduceIn(overflow_checks,
                                                    app.rule.name, r)]
                               : r \in app.routes}]
    /\ UNCHANGED <<parser, call, pc, chart, raw, seen, src, out, result, prev, num, nth>>

\* the integer "integer (numeric)" builds from the digit text t
NumericOf(t) == Produce(rule_integer_numeric.name, <<Txt(t)>>)

InitArith ==
    /\ InitAppRest
    /\ \E t \in ArithTexts :
          \/ app = NewApp(rule_integer_half_hours,
                          <<NumericOf(t), Txt(<<"si", "gan", "ban">>)>>,
                          Moment(68, 12, 0))
          \/ app = NewApp(rule_numbers_prefix,
                          <<Txt(<<"-">>), NumericOf(t)>>, Moment(68, 12, 0))
          \/ app = NewApp(rule_last_n_cycle,
                          <<Txt(<<"ji", "nan">>), NumericOf(t),
                            CycleValue("Day")>>,
                          Moment(68, 12, 0))

NextArith == AppMatch \/ ArithProduce

SpecArith == InitArith /\ [][NextArith]_vars

\* C22: integer arithmetic inside the productions is exact for every
\* integer of up to 18 digits: "<integer> and an half hours" yields 60 * n
\* + 30 minutes, and the negations of the prefix rule and of "last n
\* <cycle>" yield -n, without overflowing a signed 64-bit integer
C22_ExactArithmetic ==
    app.stage = "produced" =>
        \A b \in app.built :
            CASE app.rule.name = rule_integer_half_hours.name ->
                    b.value =
                        MinutesValue(Add3(Times60(<<0, b.kids[1].high,
                                                    b.kids[1].value>>),
                                          <<0, 0, 30>>))
              [] app.rule.name = rule_numbers_prefix.name ->
                    /\ b.value.high + b.kids[2].high = 0
                    /\ b.value.value + b.kids[2].value = 0
              [] app.rule.name = rule_last_n_cycle.name ->
                    /\ Kind(b.value) = "Time"
                    /\ b.value.constraint.n + b.kids[2].value = 0

(***************************************************************************)
(* The four rules named "season" over the days of a year.                  *)
(***************************************************************************)
\* days in a year of the calendar
YearDays == MonthStart(12) + MonthLengths[12]

SeasonRules ==
    {rule_season_summer, rule_season_autumn, rule_season_winter,
     rule_season_spring}

\* the words of the four seasons and a word that is none
SeasonWords ==
    {<<"yeo", "reum">>, <<"ga", "eul">>, <<"gyeo", "ul">>, <<"bom">>,
     <<"bam">>}

\* the first day at or after day a that belongs to the constraint c
FirstFrom(c, a) ==
    CHOOSE b \in a..(a + YearDays) :
        DayMatches(c, b) /\ \A e \in a..(b - 1) : ~DayMatches(c, e)

\* day d lies in an interval of the span c between two days of the year:
\* the interval that starts on an occurrence a of c.from runs to the first
\* occurrence b of c.to after a, [a.start, b.end) when the span is
\* inclusive and [a.start, b.start) when it is not
InSpan(c, d) ==
    \E a \in (d - YearDays)..d :
        /\ DayMatches(c.from, a)
        /\ LET b == FirstFrom(c.to, a + 1)
           IN IF c.inclusive THEN d <= b ELSE d < b

\* the day of the year (0-based) of day d of month m
DayOfYear(m, d) == MonthStart(m) + d - 1

\* day d lies from day lo of the year up to, not including, day hi of the
\* year, going round the end of the year
DayBetween(d, lo, hi) ==
    LET x == d % YearDays
    IN IF lo < hi THEN lo <= x /\ x < hi ELSE x >= lo \/ x < hi

\* the first day of the season the word w names and the first day of the
\* season after it, as days of the year
SeasonDays(w) ==
    CASE w = <<"yeo", "reum">> -> <<DayOfYear(6, 21), DayOfYear(9, 23)>>
      [] w = <<"ga", "eul">> -> <<DayOfYear(9, 23), DayOfYear(12, 21)>>
      [] w = <<"gyeo", "ul">> -> <<DayOfYear(12, 21), DayOfYear(3, 20)>>
      [] w = <<"bom">> -> <<DayOfYear(3, 20), DayOfYear(6, 21)>>

\* each rule is tried on each word, for every day of the year 2018
InitSeason ==
    /\ InitAppRest
    /\ \E r \in SeasonRules, w \in SeasonWords, d \in YearDays..Horizon :
          app = NewApp(r, <<Txt(w)>>, Moment(d, 0, 0))

SpecSeason == InitSeason /\ [][NextRule]_vars

\* the seasons whose span holds day d
SeasonsOf(d) ==
    {w \in SeasonWords \ {<<"bam">>} :
        InSpan(Produce(rule_season_summer.name, <<Txt(w)>>).constraint, d)}

\* C24: the four "season" rules partition the year: each season is the
\* half-open span from its first day to the first day of the next season
\* (6/21, 9/23, 12/21, 3/20), so every calendar day lies in exactly one
\* season and no two seasons overlap
C24_SeasonsPartition ==
    Produced =>
        \A b \in app.built :
            LET w == b.kids[1].text
                d == app.ref.day
            IN /\ Kind(b.value) = "Time"
               /\ b.value.constraint.op = "Span"
               /\ InSpan(b.value.constraint, d)
                    <=> DayBetween(d, SeasonDays(w)[1], SeasonDays(w)[2])
               /\ Cardinality(SeasonsOf(d)) = 1

\* the rule of winter has built its span for 15 January, which lies in the
\* winter that began the year before
C24_Witness ==
    /\ Produced
    /\ \E b \in app.built :
          /\ b.kids[1].text = <<"gyeo", "ul">>
          /\ app.ref.day = YearDays + DayOfYear(1, 15)
          /\ InSpan(b.value.constraint, app.ref.day)


====
